---- MODULE Spec2Model ----
(***************************************************************************)
(* Content reconciliation engine of the Arma 3 launcher:                   *)
(* ContentManager (content_manager.py) on top of the SteamCMD tool client  *)
(* (steamcmd.py).  The filesystem is the shared state; one reconciliation  *)
(* pass is a sequential process whose position is kept in pc.              *)
(***************************************************************************)
EXTENDS Integers, Sequences, FiniteSets, TLC

\* ---------------------------------------------------------------- bounds
MaxNow == 2

\* ------------------------------------------------------ program constants
\* steamcmd.py: _run_with_backoff(..., max_attempts=8)
max_attempts == 8
\* content_manager.py: ensure_workshop_item, max_attempts = 8
outer_max_attempts == 8

Ids == {1, 2}
Roots == {"mods", "maps", "servermods"}
Dests == Roots \X Ids

\* ------------------------------------------------------------ file names
\* str.lower() on the file names that occur in the modelled trees
Lower(s) ==
    CASE s = ".BIKEY" -> ".bikey"
      [] s = "Addons" -> "addons"
      [] s = "X.PBO" -> "x.pbo"
      [] s = "Meta.cpp" -> "meta.cpp"
      [] OTHER -> s

KeyFile(stem, ext) == [stem |-> stem, ext |-> ext]
KeyA == KeyFile("a", ".bikey")
KeyB == KeyFile("b", ".bikey")
KeyC == KeyFile("C", ".BIKEY")

\* a directory tree of one workshop item: the entries the engine looks at
Tree(ad, pb, me, ks) == [exists |-> TRUE, addons |-> ad, pbo |-> pb, meta |-> me, keys |-> ks]
NoTree == [exists |-> FALSE, addons |-> "", pbo |-> "", meta |-> "", keys |-> {}]

\* trees SteamCMD can leave in the workshop cache: the builds the publisher of
\* an item has released
TreeA == Tree("Addons", "", "Meta.cpp", {KeyA})
TreeC == Tree("", "X.PBO", "meta.cpp", {KeyC})
TreeBad == Tree("addons", "", "", {KeyB})
Contents(wid) == IF wid = 1 THEN {TreeA, TreeC, TreeBad} ELSE {TreeA}

\* ---------------------------------------------------------------- markers
Marker(ts, sy, lc) == [state |-> "ok", timestamp |-> ts, synced_at |-> sy, last_checked |-> lc]
NoMarker == [state |-> "absent", timestamp |-> 0, synced_at |-> 0, last_checked |-> 0]
CorruptMarker == [state |-> "corrupt", timestamp |-> 0, synced_at |-> 0, last_checked |-> 0]

\* ------------------------------------------------------- configurations
Item(i, n, r) == [id |-> i, name |-> n, required |-> r]
Ocap(en, to) == [enabled |-> en, link_to |-> to, link_name |-> "ocap"]

CfgRequired ==
    [mods |-> <<Item(2, "cba", TRUE)>>, clientmods |-> <<Item(2, "", TRUE)>>,
     maps |-> <<Item(2, "cba", TRUE)>>, servermods |-> <<>>,
     ocap |-> Ocap(FALSE, "servermods"), dlcs |-> <<>>]
CfgMixed ==
    [mods |-> <<Item(2, "", FALSE)>>, clientmods |-> <<>>,
     maps |-> <<>>, servermods |-> <<Item(2, "cba", TRUE)>>,
     ocap |-> Ocap(TRUE, "servermods"), dlcs |-> <<>>]
CfgSingle ==
    [mods |-> <<Item(1, "ace", TRUE)>>, clientmods |-> <<>>,
     maps |-> <<>>, servermods |-> <<>>,
     ocap |-> Ocap(TRUE, "missions"), dlcs |-> <<>>]
Configs == {CfgRequired, CfgMixed, CfgSingle}

\* a configuration with an item that only clients load
CfgClient == [CfgSingle EXCEPT !.clientmods = <<Item(2, "", FALSE)>>]

\* a configuration with two DLCs (DlcSpec: name, app_id, mount_name)
Dlc(n, a, m) == [name |-> n, app_id |-> a, mount_name |-> m]
CfgDlc == [CfgSingle EXCEPT !.dlcs = <<Dlc("Contact", 1, "contact"), Dlc("Global Mobilization", 2, "gm")>>]

\* the deployments explored: configuration, SKIP_INSTALL, and where
\* <instance>/mods resolves to
World(c, sk, ln) == [cfg |-> c, skip_install |-> sk, inst_mods |-> ln]
Worlds == {
    World(CfgRequired, FALSE, "inst_mods"),
    World(CfgMixed, FALSE, "inst_mods"),
    World(CfgMixed, TRUE, "inst_mods"),
    World(CfgSingle, FALSE, "inst_mods"),
    World(CfgSingle, FALSE, "inst_mpmissions") }

VARIABLES
    cfg,            \* the resolved configuration (MergedConfig.active)
    skip_install,   \* Settings.skip_install
    dirlink,        \* instance directories that are symlinks: path -> path
    store,          \* canonical store: dest -> tree
    marker,         \* dest -> .modmeta.json inside the dest
    cache,          \* workshop cache dir of SteamCMD: id -> tree
    keys,           \* files of the keys directory
    remote,         \* time_updated of each item at the Steam Web API
    now,            \* wall clock
    pc,             \* position of the reconciliation pass
    dry_run,        \* argument of the running ensure_workshop
    pos,            \* index of the item being processed
    results,        \* ensure_workshop: results
    failures,       \* ensure_workshop: failures
    before,         \* ensure_workshop_item: before
    ev,             \* ensure_workshop_item: (up_to_date, remote_ts) and what the evaluation read
    attempt,        \* ensure_workshop_item: attempt (outer backoff loop)
    call,           \* _run_with_backoff: attempt, the outcome of its last run, how the call ended
    outcomes,       \* per item of the pass: how ensure_workshop_item ended
    batch,          \* how the last ensure_workshop ended
    inst_links,     \* symlinks inside <instance>/mods and <instance>/servermods
    root_links,     \* symlinks inside the game root
    link_result,    \* how the last link_instance_content ended
    plan_out,       \* the Plan returned by the last plan()
    last_op,        \* the handler the last step belonged to
    tool,           \* concurrent tool invocations: per invocation, the client's frame and its child
    lock,           \* holder of the advisory lock <tmp_dir>/steamcmd.lock (0: free)
    sdest,          \* _sync_from_cache: the canonical directory dest, file by file
    stmp,           \* _sync_from_cache: the staging directory dest.tmp, file by file
    sync,           \* _sync_from_cache: per run, its position and the entries still to visit
    lk,             \* link_instance_content step by step: position, and the links it started from
    tr,             \* SteamCMD._run after the child has exited: exit code, collected lines, errors raised
    dsrc,           \* _resolve_dlc_link_source: the install directory looked at, the mount name, the answer
    dl,             \* ensure_dlcs: its position and results, and the DLC store with its links
    fn              \* a function of the package applied to drawn arguments

\* the variables of the reconciliation pass
mainvars == <<cfg, skip_install, dirlink, store, marker, cache, keys, remote, now,
              pc, dry_run, pos, results, failures, before, ev, attempt, call,
              outcomes, batch, inst_links, root_links, link_result, plan_out, last_op>>
\* the variables of the component specifications
sidevars == <<tool, lock, sdest, stmp, sync, lk, tr, dsrc, dl, fn>>
vars == <<mainvars, sidevars>>

\* everything on disk
fs == <<store, marker, cache, keys, inst_links, root_links>>
\* the local variables of a running pass
passvars == <<pc, dry_run, pos, results, failures, before, ev, attempt, call, outcomes, batch>>
envvars == <<cfg, skip_install, dirlink, remote>>

\* ------------------------------------------------------------ path layout
Tagged(k, s) == [i \in 1..Len(s) |-> [kind |-> k, item |-> s[i]]]
\* the order in which ensure_workshop walks the four category lists
WorkItems(c) ==
    Tagged("mods", c.mods) \o Tagged("clientmods", c.clientmods)
        \o Tagged("maps", c.maps) \o Tagged("servermods", c.servermods)

\* dest_root = {...}.get(kind, self.layout.mods)
DestRoot(kind) ==
    CASE kind = "maps" -> "maps"
      [] kind = "servermods" -> "servermods"
      [] OTHER -> "mods"
DestOf(kind, wid) == <<DestRoot(kind), wid>>

\* name = item.name or str(wid)
ItemName(item) == IF item.name = "" THEN ToString(item.id) ELSE item.name

\* Path.resolve(): follows a symlinked instance directory
Resolve(p) == IF p \in DOMAIN dirlink THEN dirlink[p] ELSE p

\* ------------------------------------------------- minimal-content check
\* src.glob("**/*.pbo"): fnmatch is case-sensitive on POSIX
GlobPbo(name) == name = "x.pbo"

VerifyModMinimum(t) ==
    /\ t.exists
    /\ (t.addons = "addons" \/ GlobPbo(t.pbo))
    /\ (t.meta = "meta.cpp" \/ Lower(t.meta) = "meta.cpp")

\* directories and files with extension .pbo/.paa/.sqf get lower-case names
NormalizeModCase(t) == [t EXCEPT !.addons = Lower(@), !.pbo = Lower(@)]

\* ------------------------------------------------------------- staleness
\* int(meta.get("timestamp") or 0) with meta = _read_modmeta(marker) or {}
LocalTs(m) == IF m.state = "ok" THEN m.timestamp ELSE 0

\* variant: strict comparison
EpochFresh_strict(local_ts, remote_ts) == local_ts > remote_ts

\* the verdict when the comparison is reached
EpochFresh(local_ts, remote_ts) == local_ts >= remote_ts

\* variant: the minimal-content check is left out
VerdictKnown_unvalidated(t, m, ans) == [up |-> LocalTs(m) >= ans, remote_ts |-> ans]

\* the verdict when the oracle has answered
VerdictKnown(t, m, ans) ==
    IF ~VerifyModMinimum(t)
    THEN [up |-> FALSE, remote_ts |-> 0]
    ELSE [up |-> EpochFresh(LocalTs(m), ans), remote_ts |-> ans]

\* variant: an installed, valid tree is trusted when the oracle is silent
VerdictUnknown_trusting(t, m) == [up |-> VerifyModMinimum(t), remote_ts |-> 0]

\* the verdict when the oracle has returned None
VerdictUnknown(t, m) == [up |-> FALSE, remote_ts |-> 0]

\* _is_workshop_item_up_to_date: (up_to_date, remote_ts); ans = 0 is None
IsWorkshopItemUpToDate(t, m, ans) ==
    IF ~t.exists \/ m.state = "absent"
    THEN [up |-> FALSE, remote_ts |-> 0]
    ELSE IF ans = 0 THEN VerdictUnknown(t, m) ELSE VerdictKnown(t, m, ans)

\* the marker as the evaluation leaves it: last_checked refreshed if readable,
\* meta["synced_at"] = str(meta.get("synced_at") or checked) fills a missing
\* synced_at (0) with the time of the check
MarkerAfterCheck(t, m, clock) ==
    IF t.exists /\ m.state = "ok"
    THEN [m EXCEPT !.last_checked = clock, !.synced_at = IF @ = 0 THEN clock ELSE @]
    ELSE m

\* _write_modmeta(marker, timestamp=...): synced_at and last_checked are "now"
WriteModmeta(ts, clock) == Marker(ts, clock, clock)

\* ------------------------------------------------------------------ keys
KeyEntry(wid, k) == [prefix |-> wid, name |-> k]
\* keys_dir.glob(f"{prefix}*.bikey"): case-sensitive match of the suffix
GlobOldKeys(kd, wid) == {f \in kd : f.prefix = wid /\ f.name.ext = ".bikey"}
\* os.walk(moddir): Path(fn).suffix.lower() == ".bikey"
FoundKeys(t) == {k \in t.keys : Lower(k.ext) = ".bikey"}
CopyKeysFromMod(kd, t, wid) ==
    (kd \ GlobOldKeys(kd, wid)) \cup {KeyEntry(wid, k) : k \in FoundKeys(t)}

\* ------------------------------------------------------------ null values
NoEval == [up |-> FALSE, remote_ts |-> 0, queried |-> FALSE, ans |-> 0,
           installed |-> FALSE, local_ts |-> 0, valid |-> FALSE, seen |-> NoMarker]
NoCall == [attempt |-> 0, status |-> "none", kind |-> ""]
NoBatch == [status |-> "none", msg |-> <<>>]
NoPlan == [ok |-> TRUE, actions |-> <<>>]

\* ------------------------------------------------- concurrent invocations
\* the invocations that may overlap: two passes, or two threads of one process
Procs == {1, 2}
NoTool == [client |-> "", at |-> "idle", attempt |-> 0, child |-> "none", rc |-> 0,
           overdue |-> FALSE, result |-> "none"]
\* no tool invocation of the component specifications is under way
\* a directory as a set of files <<name, version of the content>>
Dir(fl) == [exists |-> TRUE, files |-> fl]
NoDir == [exists |-> FALSE, files |-> {}]
FileNames == {"addons", "meta.cpp"}
\* the complete tree of version v of an item
Complete(v) == Dir(FileNames \X {v})
NoSync == [at |-> "idle", todo |-> {}]
NoLk == [at |-> "idle", k |-> 0, half |-> FALSE, crashed |-> FALSE, runs |-> 0, il0 |-> {}, rl0 |-> {}]
NoRun == [at |-> "idle", rc |-> 0, ring |-> <<>>, errors |-> <<>>]
\* no function has been applied
NoFn == [op |-> "none"]

NoDl == [at |-> "idle", pos |-> 0, results |-> <<>>, error |-> "",
         marker |-> [m \in {"contact", "gm"} |-> NoMarker],
         tree |-> [m \in {"contact", "gm"} |-> [exists |-> FALSE, addons |-> FALSE, listing |-> <<>>]],
         links |-> {}]
NoResolve == [at |-> "idle", target |-> [exists |-> FALSE, addons |-> FALSE, listing |-> <<>>],
              mount |-> "", out |-> [path |-> <<>>, warnings |-> 0]]

SideIdle ==
    /\ tool = [p \in Procs |-> NoTool]
    /\ lock = 0
    /\ sdest = NoDir
    /\ stmp = NoDir
    /\ sync = [p \in Procs |-> NoSync]
    /\ lk = NoLk
    /\ tr = NoRun
    /\ dsrc = NoResolve
    /\ dl = NoDl
    /\ fn = NoFn

\* the state after construction of the manager in deployment w, over a given disk
MainInitOn(w, st, mk, il, rl) ==
    /\ cfg = w.cfg
    /\ skip_install = w.skip_install
    /\ dirlink = [p \in {"inst_mods"} |-> w.inst_mods]
    /\ store = st
    /\ marker = mk
    /\ cache = [i \in Ids |-> NoTree]
    /\ keys = {}
    /\ remote = [i \in Ids |-> 1]
    /\ now = 1
    /\ pc = "idle"
    /\ dry_run = FALSE
    /\ pos = 0
    /\ results = <<>>
    /\ failures = <<>>
    /\ before = FALSE
    /\ ev = NoEval
    /\ attempt = 0
    /\ call = NoCall
    /\ outcomes = <<>>
    /\ batch = NoBatch
    /\ inst_links = il
    /\ root_links = rl
    /\ link_result = "none"
    /\ plan_out = NoPlan
    /\ last_op = "init"

\* the state after construction of the manager in deployment w, nothing installed
MainInit(w) ==
    MainInitOn(w, [d \in Dests |-> NoTree], [d \in Dests |-> NoMarker], {}, {})

Init ==
    /\ \E w \in Worlds : MainInit(w)
    /\ SideIdle

\* the values returned by a finished ensure_workshop are dropped
ForgetPass ==
    /\ results' = <<>>
    /\ failures' = <<>>
    /\ outcomes' = <<>>
    /\ batch' = NoBatch
    /\ pos' = 0
    /\ dry_run' = FALSE
    /\ UNCHANGED <<pc, before, ev, attempt, call>>

\* ---------------------------------------------------------- ensure_workshop
Items == WorkItems(cfg)
Cur == Items[pos]
CurId == Cur.item.id
CurDest == DestOf(Cur.kind, CurId)

InstallResult(kind, wid, changed) == [kind |-> kind, id |-> wid, changed |-> changed]
Reason(exc, detail) == [exc |-> exc, detail |-> detail]
NoReason == Reason("", "")

\* variant: the failure is recorded whether or not the item is required
FailuresAfter_any(fl, kind, item, reason) ==
    Append(fl, [kind |-> kind, name |-> ItemName(item), wid |-> item.id, reason |-> reason])

\* except Exception as e: the failure is recorded for a required item only
FailuresAfter(fl, kind, item, reason) ==
    IF item.required
    THEN Append(fl, [kind |-> kind, name |-> ItemName(item), wid |-> item.id, reason |-> reason])
    ELSE fl

\* variant: a new result is put in front of the list
ResultsAfter_front(rs, how, r) == IF how = "result" THEN <<r>> \o rs ELSE rs

\* if r: results.append(r)
ResultsAfter(rs, how, r) == IF how = "result" THEN Append(rs, r) ELSE rs

\* the item's call has ended (result, None or exception); the loop continues
ItemEnds(how, changed, reason) ==
    /\ results' = ResultsAfter(results, how, InstallResult(Cur.kind, CurId, changed))
    /\ failures' = IF how = "raised" THEN FailuresAfter(failures, Cur.kind, Cur.item, reason) ELSE failures
    /\ outcomes' = Append(outcomes, [how |-> how, reason |-> reason, attempt |-> attempt,
                                     last_kind |-> call.kind])
    /\ pos' = pos + 1
    /\ pc' = "item"
    /\ before' = FALSE
    /\ ev' = NoEval
    /\ attempt' = 0
    /\ call' = NoCall
    /\ last_op' = "ensure_workshop"
    /\ UNCHANGED <<dry_run, batch>>

\* cm.ensure_workshop(cfg, dry_run=dry_run): entered at once when no DLC is
\* configured, else when cm.ensure_dlcs has returned
ensure_workshop_begin(d) ==
    /\ IF cfg.dlcs = <<>> THEN pc = "idle" ELSE pc = "dlcs_done" /\ d = dry_run
    /\ dry_run' = d
    /\ pos' = 1
    /\ results' = <<>>
    /\ failures' = <<>>
    /\ outcomes' = <<>>
    /\ batch' = [status |-> "running", msg |-> <<>>]
    /\ pc' = "item"
    /\ last_op' = "ensure_workshop"
    /\ link_result' = "none"
    /\ plan_out' = NoPlan
    /\ UNCHANGED <<before, ev, attempt, call>>
    /\ UNCHANGED <<fs, envvars, sidevars, now>>

\* variant: the error names the first failure only
BatchEnd_first_only(fl) ==
    IF fl # <<>> THEN [status |-> "raised", msg |-> <<fl[1]>>] ELSE [status |-> "returned", msg |-> <<>>]

\* if failures: raise RuntimeError(msg)  /  return results
BatchEnd(fl) ==
    IF fl # <<>> THEN [status |-> "raised", msg |-> fl] ELSE [status |-> "returned", msg |-> <<>>]

ensure_workshop_end ==
    /\ pc = "item"
    /\ pos > Len(Items)
    /\ batch' = BatchEnd(failures)
    /\ pc' = IF failures # <<>> THEN "idle" ELSE "link"
    /\ last_op' = "ensure_workshop"
    /\ UNCHANGED <<dry_run, pos, results, failures, before, ev, attempt, call, outcomes>>
    /\ UNCHANGED <<fs, envvars, sidevars, now, link_result, plan_out>>

\* ------------------------------------------------------ ensure_workshop_item
item_dry_run ==
    /\ pc = "item"
    /\ pos <= Len(Items)
    /\ dry_run
    /\ ItemEnds("result", marker[CurDest].state = "absent", NoReason)
    /\ UNCHANGED <<fs, envvars, sidevars, now, link_result, plan_out>>

item_skip_install ==
    /\ pc = "item"
    /\ pos <= Len(Items)
    /\ ~dry_run
    /\ skip_install
    /\ ItemEnds("result", marker[CurDest].state = "absent", NoReason)
    /\ UNCHANGED <<fs, envvars, sidevars, now, link_result, plan_out>>

\* up_to_date, remote_ts = self._is_workshop_item_up_to_date(...)
item_evaluate(ans) ==
    /\ pc = "item"
    /\ pos <= Len(Items)
    /\ ~dry_run
    /\ ~skip_install
    /\ LET t == store[CurDest]
           m == marker[CurDest]
           queried == t.exists /\ m.state # "absent"
           v == IsWorkshopItemUpToDate(t, m, ans)
       IN /\ ans \in (IF queried THEN {0, remote[CurId]} ELSE {0})
          /\ before' = (m.state # "absent")
          /\ marker' = [marker EXCEPT ![CurDest] = IF queried THEN MarkerAfterCheck(t, m, now) ELSE m]
          /\ ev' = [up |-> v.up, remote_ts |-> v.remote_ts, queried |-> queried, ans |-> ans,
                    installed |-> queried, local_ts |-> LocalTs(m), valid |-> VerifyModMinimum(t),
                    seen |-> m]
    /\ pc' = "evaluated"
    /\ last_op' = "ensure_workshop"
    /\ UNCHANGED <<dry_run, pos, results, failures, attempt, call, outcomes, batch>>
    /\ UNCHANGED <<store, cache, keys, inst_links, root_links, envvars, sidevars, now, link_result, plan_out>>

item_up_to_date ==
    /\ pc = "evaluated"
    /\ ev.up
    /\ ItemEnds("result", FALSE, NoReason)
    /\ UNCHANGED <<fs, envvars, sidevars, now, link_result, plan_out>>

item_start_download ==
    /\ pc = "evaluated"
    /\ ~ev.up
    /\ attempt' = 1
    /\ call' = [NoCall EXCEPT !.status = "running"]
    /\ pc' = "download"
    /\ last_op' = "ensure_workshop"
    /\ UNCHANGED <<dry_run, pos, results, failures, before, ev, outcomes, batch>>
    /\ UNCHANGED <<fs, envvars, sidevars, now, link_result, plan_out>>

\* ------------------------------------------------------------- tool client
\* what one run of the tool ends as: rc == 0, or the classified SteamCmdError
Rcs == {"OK", "NOT_FOUND", "ACCESS_DENIED", "RATE_LIMIT", "FAILED"}

\* variant: off by one in the attempt cap
RaiseFromBackoff_late(kind, att) == kind # "RATE_LIMIT" \/ att > max_attempts

\* _run_with_backoff: if e.kind != "RATE_LIMIT" or attempt >= max_attempts: raise
RaiseFromBackoff(kind, att) == kind # "RATE_LIMIT" \/ att >= max_attempts

\* how a call of workshop_download ends; the frame of _run_with_backoff is gone
Returned == [attempt |-> 0, status |-> "returned", kind |-> "OK"]
Raised(kind) == [attempt |-> 0, status |-> "raised", kind |-> kind]
\* the loop goes on after a run that ended as kind
Running(att, kind) == [attempt |-> att, status |-> "running", kind |-> kind]

\* one iteration of the loop of _run_with_backoff: attempt += 1; self._run(args)
steam_run(rc, t) ==
    /\ pc = "download"
    /\ LET att == call.attempt + 1
       IN IF rc = "OK"
          THEN /\ t \in Contents(CurId) \cup {cache[CurId]}
               /\ cache' = [cache EXCEPT ![CurId] = t]
               /\ call' = Returned
               /\ pc' = "call_end"
          ELSE /\ t = cache[CurId]
               /\ cache' = cache
               /\ IF RaiseFromBackoff(rc, att)
                  THEN /\ call' = Raised(rc)
                       /\ pc' = "call_end"
                  ELSE /\ call' = Running(att, rc)
                       /\ pc' = "download"
    /\ last_op' = "ensure_workshop"
    /\ UNCHANGED <<dry_run, pos, results, failures, before, ev, attempt, outcomes, batch>>
    /\ UNCHANGED <<store, marker, keys, inst_links, root_links, envvars, sidevars, now, link_result, plan_out>>

\* ------------------------------------- ensure_workshop_item: after the call
\* names bound in content_manager.py by its import statements
ImportedNames == {"annotations", "json", "itertools", "os", "shutil", "urllib", "dataclass",
                  "datetime", "timezone", "Path", "List", "Optional", "MergedConfig",
                  "WorkshopItem", "DlcSpec", "Settings", "Layout", "SteamCMD", "SteamCmdError",
                  "get_logger", "Plan", "PlanAction"}
NameBound(n) == n \in ImportedNames

\* if e.kind not in ("RATE_LIMIT", "TIMEOUT") or attempt >= max_attempts: raise
OuterRaise(kind, att) == kind \notin {"RATE_LIMIT", "TIMEOUT"} \/ att >= outer_max_attempts

download_returned ==
    /\ pc = "call_end"
    /\ call.status = "returned"
    /\ pc' = "post_download"
    /\ last_op' = "ensure_workshop"
    /\ UNCHANGED <<dry_run, pos, results, failures, before, ev, attempt, call, outcomes, batch>>
    /\ UNCHANGED <<fs, envvars, sidevars, now, link_result, plan_out>>

download_raised ==
    /\ pc = "call_end"
    /\ call.status = "raised"
    /\ IF OuterRaise(call.kind, attempt)
       THEN IF call.kind \in {"NOT_FOUND", "ACCESS_DENIED"}
            THEN IF Cur.item.required
                 THEN ItemEnds("raised", FALSE, Reason("RuntimeError", call.kind))
                 ELSE ItemEnds("none", FALSE, NoReason)
            ELSE ItemEnds("raised", FALSE, Reason("SteamCmdError", call.kind))
       ELSE IF NameBound("random") /\ NameBound("time")
            THEN /\ attempt' = attempt + 1
                 /\ call' = [NoCall EXCEPT !.status = "running"]
                 /\ pc' = "download"
                 /\ last_op' = "ensure_workshop"
                 /\ UNCHANGED <<dry_run, pos, results, failures, before, ev, outcomes, batch>>
            ELSE ItemEnds("raised", FALSE, Reason("NameError", "random"))
    /\ UNCHANGED <<fs, envvars, sidevars, now, link_result, plan_out>>

\* variant: the keys installed for the item are removed when the cache is missing
item_no_cache_wiping ==
    /\ pc = "post_download"
    /\ ~cache[CurId].exists
    /\ IF Cur.item.required
       THEN ItemEnds("raised", FALSE, Reason("RuntimeError", "no cache directory"))
       ELSE ItemEnds("none", FALSE, NoReason)
    /\ keys' = keys \ GlobOldKeys(keys, CurId)
    /\ UNCHANGED <<store, marker, cache, inst_links, root_links, envvars, sidevars, now,
                   link_result, plan_out>>

\* if not cache.exists(): raise for a required item, return None for an optional one
item_no_cache ==
    /\ pc = "post_download"
    /\ ~cache[CurId].exists
    /\ IF Cur.item.required
       THEN ItemEnds("raised", FALSE, Reason("RuntimeError", "no cache directory"))
       ELSE ItemEnds("none", FALSE, NoReason)
    /\ UNCHANGED <<fs, envvars, sidevars, now, link_result, plan_out>>

\* _sync_from_cache: dest becomes a copy of the cache (the old dest, marker included, is removed)
SyncFromCache(c) == c

\* remote_ts as written to the marker: the value of the evaluation, else a
\* second query (ans), else the clock
InstallEpoch(known, ans, clock) ==
    IF known # 0 THEN known ELSE IF ans # 0 THEN ans ELSE clock

item_install(ans) ==
    /\ pc = "post_download"
    /\ cache[CurId].exists
    /\ ans \in (IF ev.remote_ts = 0 THEN {0, remote[CurId]} ELSE {0})
    /\ LET t == NormalizeModCase(SyncFromCache(cache[CurId]))
       IN /\ store' = [store EXCEPT ![CurDest] = t]
          /\ marker' = [marker EXCEPT ![CurDest] = WriteModmeta(InstallEpoch(ev.remote_ts, ans, now), now)]
          /\ keys' = CopyKeysFromMod(keys, t, CurId)
    /\ ItemEnds("result", TRUE, NoReason)
    /\ UNCHANGED <<cache, inst_links, root_links, envvars, sidevars, now, link_result, plan_out>>

\* ------------------------------------------------------------ environment
tick ==
    /\ pc = "idle"
    /\ now < MaxNow
    /\ now' = now + 1
    /\ last_op' = "env"
    /\ ForgetPass
    /\ link_result' = "none"
    /\ plan_out' = NoPlan
    /\ UNCHANGED <<fs, envvars, sidevars>>

\* the publisher updates an item: time_updated becomes the current time
remote_update(i) ==
    /\ pc = "idle"
    /\ remote[i] < now
    /\ remote' = [remote EXCEPT ![i] = now]
    /\ last_op' = "env"
    /\ ForgetPass
    /\ link_result' = "none"
    /\ plan_out' = NoPlan
    /\ UNCHANGED <<fs, cfg, skip_install, dirlink, now, sidevars>>

\* a marker file is left unreadable (truncated write, manual edit)
marker_damaged(d) ==
    /\ pc = "idle"
    /\ marker[d].state = "ok"
    /\ \A e \in Dests : marker[e].state # "corrupt"
    /\ marker' = [marker EXCEPT ![d] = CorruptMarker]
    /\ last_op' = "env"
    /\ ForgetPass
    /\ link_result' = "none"
    /\ plan_out' = NoPlan
    /\ UNCHANGED <<store, cache, keys, inst_links, root_links, envvars, sidevars, now>>

\* --------------------------------------------------------------------- plan
PlanAction(action, kind, wid, src, dst, will_change, severity) ==
    [action |-> action, kind |-> kind, wid |-> wid, src |-> src, dst |-> dst,
     will_change |-> will_change, severity |-> severity]
NoPath == <<"", 0>>

\* plan_item(kind, item)
plan_item(kind, item) ==
    LET dest == DestOf(kind, item.id)
        sev == IF ~cache[item.id].exists
               THEN (IF item.required THEN "warn" ELSE "info")
               ELSE "info"
    IN PlanAction("download_workshop", kind, item.id, NoPath, dest,
                  marker[dest].state = "absent", sev)

\* the three "Symlinks" loops of plan()
plan_link(kind, srcroot, dstdir, item) ==
    LET src == <<srcroot, item.id>>
    IN PlanAction("link", kind, item.id, src, <<dstdir, item.id>>, TRUE,
                  IF store[src].exists THEN "info" ELSE "warn")

\* the "OCAP" block of plan(); the shared ocap store is taken to exist (severity "info")
plan_ocap(oc) ==
    IF ~oc.enabled THEN <<>>
    ELSE IF oc.link_to \notin {"mods", "servermods"}
         THEN <<PlanAction("ocap_config_error", "ocap", 0, NoPath, NoPath, FALSE, "error")>>
         ELSE <<PlanAction("link_ocap", "ocap", 0, <<"ocap", 0>>,
                           <<IF oc.link_to = "mods" THEN "inst_mods" ELSE "inst_servermods", 0>>,
                           TRUE, "info")>>

PlanActions(c) ==
    [i \in 1..Len(c.mods) |-> plan_item("mods", c.mods[i])]
    \o [i \in 1..Len(c.maps) |-> plan_item("maps", c.maps[i])]
    \o [i \in 1..Len(c.servermods) |-> plan_item("servermods", c.servermods[i])]
    \o [i \in 1..Len(c.mods) |-> plan_link("mods", "mods", "inst_mods", c.mods[i])]
    \o [i \in 1..Len(c.maps) |-> plan_link("maps", "maps", "inst_mods", c.maps[i])]
    \o [i \in 1..Len(c.servermods) |-> plan_link("servermods", "mods", "inst_servermods", c.servermods[i])]
    \o plan_ocap(c.ocap)

PlanOk(c) == ~(c.ocap.enabled /\ c.ocap.link_to \notin {"mods", "servermods"})

\* variant: planning creates the destination directories it reports
plan_mkdirs ==
    /\ pc = "idle"
    /\ plan_out' = [ok |-> PlanOk(cfg), actions |-> PlanActions(cfg)]
    /\ store' = [d \in Dests |->
                    IF ~store[d].exists /\ (\E i \in 1..Len(Items) : DestOf(Items[i].kind, Items[i].item.id) = d)
                    THEN Tree("", "", "", {}) ELSE store[d]]
    /\ last_op' = "plan"
    /\ ForgetPass
    /\ link_result' = "none"
    /\ UNCHANGED <<marker, cache, keys, inst_links, root_links, envvars, sidevars, now>>

\* ContentManager.plan(cfg), called through Orchestrator.plan()
plan ==
    /\ pc = "idle"
    /\ plan_out' = [ok |-> PlanOk(cfg), actions |-> PlanActions(cfg)]
    /\ last_op' = "plan"
    /\ ForgetPass
    /\ link_result' = "none"
    /\ UNCHANGED <<fs, envvars, sidevars, now>>

\* ---------------------------------------------------- link_instance_content
Link(dir, name, target) == [dir |-> dir, name |-> name, target |-> target]
InstDirs == {"inst_mods", "inst_servermods"}

\* _recreate_link: whatever is at link_path is removed, then the symlink is made
RecreateLink(ls, l) == {x \in ls : ~(x.dir = l.dir /\ x.name = l.name)} \cup {l}

RECURSIVE RecreateAll(_, _)
RecreateAll(ls, ops) ==
    IF ops = <<>> THEN ls ELSE RecreateAll(RecreateLink(ls, Head(ops)), Tail(ops))

\* the two links of one workshop item, made only if its store directory exists
ItemLinks(srcroot, dstdir, item) ==
    LET src == <<srcroot, item.id>>
    IN IF store[src].exists
       THEN <<Link(dstdir, ToString(item.id), src), Link("arma_root", "@" \o ToString(item.id), src)>>
       ELSE <<>>

RECURSIVE ItemsLinks(_, _, _)
ItemsLinks(srcroot, dstdir, items) ==
    IF items = <<>> THEN <<>>
    ELSE ItemLinks(srcroot, dstdir, Head(items)) \o ItemsLinks(srcroot, dstdir, Tail(items))

OcapLinks(oc) ==
    IF ~oc.enabled THEN <<>>
    ELSE <<Link(IF oc.link_to = "mods" THEN "inst_mods" ELSE "inst_servermods", oc.link_name, <<"ocap", 0>>),
           Link("arma_root", "@" \o oc.link_name, <<"ocap", 0>>)>>

\* every _recreate_link call of one non-dry run, in program order
LinkOps(c) ==
    ItemsLinks("mods", "inst_mods", c.mods)
    \o ItemsLinks("maps", "inst_mods", c.maps)
    \o ItemsLinks("servermods", "inst_servermods", c.servermods)
    \o OcapLinks(c.ocap)
    \o <<Link("arma_root", "mpmissions", <<"inst_mpmissions", 0>>),
         Link("arma_cfg_dir", "generated_a3server.cfg", <<"inst_config", 1>>),
         Link("arma_cfg_dir", "generated_hc_a3client.cfg", <<"inst_config", 2>>)>>

\* the links after one complete non-dry run that started from il, rl: the
\* children of the two instance directories are removed, then every link is
\* recreated
LinkedState(il, rl, c) ==
    LET all == RecreateAll(rl, LinkOps(c))
    IN [inst |-> {l \in all : l.dir \in InstDirs},
        root |-> {l \in all : l.dir \notin InstDirs}]

\* variant: the paths are compared without resolving them
LayoutCollides_unresolved == "inst_mods" = "inst_mpmissions"

\* if self.layout.inst_mods.resolve() == self.layout.inst_mpmissions.resolve(): raise
LayoutCollides == Resolve("inst_mods") = Resolve("inst_mpmissions")

\* cm.link_instance_content(cfg, dry_run=dry_run), reached when ensure_workshop has returned
link_instance_content ==
    /\ pc = "link"
    /\ IF LayoutCollides
       THEN /\ link_result' = "raised"
            /\ UNCHANGED <<inst_links, root_links>>
       ELSE /\ link_result' = "returned"
            /\ IF dry_run
               THEN UNCHANGED <<inst_links, root_links>>
               ELSE /\ inst_links' = LinkedState(inst_links, root_links, cfg).inst
                    /\ root_links' = LinkedState(inst_links, root_links, cfg).root
    /\ pc' = "idle"
    /\ last_op' = "link"
    /\ UNCHANGED <<dry_run, pos, results, failures, before, ev, attempt, call, outcomes, batch>>
    /\ UNCHANGED <<store, marker, cache, keys, envvars, sidevars, now, plan_out>>

\* ------------------------------------------------------------ specification
Next ==
    \/ \E d \in BOOLEAN : ensure_workshop_begin(d)
    \/ ensure_workshop_end
    \/ item_dry_run
    \/ item_skip_install
    \/ \E ans \in 0..MaxNow : item_evaluate(ans)
    \/ item_up_to_date
    \/ item_start_download
    \/ \E rc \in Rcs, t \in Contents(1) \cup {NoTree} : steam_run(rc, t)
    \/ download_returned
    \/ download_raised
    \/ item_no_cache
    \/ \E ans \in 0..MaxNow : item_install(ans)
    \/ tick
    \/ \E i \in Ids : remote_update(i)
    \/ \E d \in Dests : marker_damaged(d)
    \/ plan
    \/ link_instance_content

Spec == Init /\ [][Next]_vars

TypeOK ==
    /\ pc \in {"idle", "dlc", "dlcs_done", "item", "evaluated", "download", "call_end",
              "post_download", "link"}
    /\ now \in 1..MaxNow
    /\ \A d \in Dests : marker[d].state # "absent" => store[d].exists

\* --------------------------------------------- a Steam library that is lost
\* The download cache lives under steam_library_root, the store under the
\* shared content root: the cache of an item can be gone (a fresh container, a
\* cleaned library) while the item is still installed.
cache_lost(i) ==
    /\ pc = "idle"
    /\ cache[i].exists
    /\ cache' = [cache EXCEPT ![i] = NoTree]
    /\ last_op' = "env"
    /\ ForgetPass
    /\ link_result' = "none"
    /\ plan_out' = NoPlan
    /\ UNCHANGED <<store, marker, keys, inst_links, root_links, envvars, sidevars, now>>

VolatileNext ==
    \/ Next
    \/ \E i \in Ids : cache_lost(i)

\* the deployments with an optional and a required item
VolatileInit ==
    /\ \E sk \in BOOLEAN : MainInit(World(CfgMixed, sk, "inst_mods"))
    /\ SideIdle

VolatileSpec == VolatileInit /\ [][VolatileNext]_vars

\* ============================================================ tool clients
\* Two invocations of the external tool that may overlap in time, each made
\* through one of the two clients of the package: steamcmd.py (SteamCMD._run,
\* used by ContentManager) or steam.py (SteamCMD._steamcmd_run).
\* steam.py: _steamcmd_run(..., retries: int = 5, ...)
retries == 5

\* a child that has been spawned and has neither exited nor been killed
Alive(c) == c \in {"running", "detached"}

ToolStep(p, t) ==
    /\ tool' = [tool EXCEPT ![p] = t]
    /\ UNCHANGED mainvars
    /\ UNCHANGED <<sdest, stmp, sync, lk, tr, dsrc, dl, fn>>

\* steamcmd.py, _run is entered: no lock is taken
steamcmd_invoke(p) ==
    /\ tool[p].at = "idle"
    /\ ToolStep(p, [tool[p] EXCEPT !.client = "steamcmd", !.at = "spawn", !.attempt = 1])
    /\ UNCHANGED lock

\* steamcmd.py: proc = subprocess.Popen(cmd, ...); the pump threads are started
steamcmd_spawn(p) ==
    /\ tool[p].client = "steamcmd" /\ tool[p].at = "spawn"
    /\ ToolStep(p, [tool[p] EXCEPT !.child = "running", !.at = "wait"])
    /\ UNCHANGED lock

\* steamcmd.py: rc = proc.wait() returns once the child has exited
steamcmd_wait_returns(p) ==
    /\ tool[p].client = "steamcmd" /\ tool[p].at = "wait"
    /\ tool[p].child = "exited"
    /\ ToolStep(p, [tool[p] EXCEPT !.child = "none", !.at = "done",
                                   !.result = IF tool[p].rc = 0 THEN "returned" ELSE "raised"])
    /\ UNCHANGED lock

\* steam.py, _steamcmd_run is entered: with self._steamcmd_mutex()
steam_invoke(p) ==
    /\ tool[p].at = "idle"
    /\ ToolStep(p, [tool[p] EXCEPT !.client = "steam", !.at = "locking"])
    /\ UNCHANGED lock

\* fcntl.flock(LOCK_EX | LOCK_NB) succeeds
mutex_acquire(p) ==
    /\ tool[p].at = "locking"
    /\ lock = 0
    /\ lock' = p
    /\ ToolStep(p, [tool[p] EXCEPT !.at = "spawn", !.attempt = 1])

\* variant: the invocation goes on without the lock once the timeout is over
mutex_timeout_proceeds(p) ==
    /\ tool[p].at = "locking"
    /\ lock # 0
    /\ ToolStep(p, [tool[p] EXCEPT !.at = "spawn", !.attempt = 1])
    /\ UNCHANGED lock

\* the lock stayed taken for longer than timeout: TimeoutError, return False
mutex_timeout(p) ==
    /\ tool[p].at = "locking"
    /\ lock # 0
    /\ ToolStep(p, [tool[p] EXCEPT !.at = "done", !.result = "false"])
    /\ UNCHANGED lock

\* steam.py: with subprocess.Popen(cmd, ...) as proc
steam_spawn(p) ==
    /\ tool[p].client = "steam" /\ tool[p].at = "spawn"
    /\ ToolStep(p, [tool[p] EXCEPT !.child = "running", !.at = "reading"])
    /\ UNCHANGED lock

\* steam.py: for line in proc.stdout ends at end of file
steam_read_eof(p) ==
    /\ tool[p].client = "steam" /\ tool[p].at = "reading"
    /\ tool[p].child \in {"detached", "exited", "killed"}
    /\ ToolStep(p, [tool[p] EXCEPT !.at = "wait"])
    /\ UNCHANGED lock

\* steam.py: a line shows a rate limit, a timeout or a revoked login: proc.kill(); break
steam_read_transient(p) ==
    /\ tool[p].client = "steam" /\ tool[p].at = "reading"
    /\ tool[p].child = "running"
    /\ ToolStep(p, [tool[p] EXCEPT !.child = "killed", !.rc = 9, !.at = "wait"])
    /\ UNCHANGED lock

\* steam.py: proc.wait(timeout=per_try_timeout) raises TimeoutExpired: proc.kill()
steam_wait_times_out(p) ==
    /\ tool[p].client = "steam" /\ tool[p].at = "wait"
    /\ tool[p].child = "detached"
    /\ ToolStep(p, [tool[p] EXCEPT !.child = "killed", !.rc = 9])
    /\ UNCHANGED lock

\* steam.py: the return code is there: return True, or back off and go on
\* with the next attempt, or return False after the last one
steam_wait_returns(p) ==
    /\ tool[p].client = "steam" /\ tool[p].at = "wait"
    /\ tool[p].child \in {"exited", "killed"}
    /\ IF tool[p].child = "exited" /\ tool[p].rc = 0
       THEN /\ ToolStep(p, [tool[p] EXCEPT !.child = "none", !.at = "done", !.result = "true"])
            /\ lock' = 0
       ELSE IF tool[p].attempt < retries
            THEN /\ ToolStep(p, [tool[p] EXCEPT !.child = "none", !.at = "spawn", !.attempt = @ + 1])
                 /\ UNCHANGED lock
            ELSE /\ ToolStep(p, [tool[p] EXCEPT !.child = "none", !.at = "done", !.result = "false"])
                 /\ lock' = 0

\* the child closes its output and stays alive
child_closes_stdout(p) ==
    /\ tool[p].child = "running"
    /\ ToolStep(p, [tool[p] EXCEPT !.child = "detached"])
    /\ UNCHANGED lock

\* the child exits with code rc
child_exits(p, rc) ==
    /\ Alive(tool[p].child)
    /\ ToolStep(p, [tool[p] EXCEPT !.child = "exited", !.rc = rc])
    /\ UNCHANGED lock

\* the client is blocked on its child in a call that has no timeout
BlockedUnbounded(t) ==
    \/ t.client = "steamcmd" /\ t.at = "wait" /\ Alive(t.child)
    \/ t.client = "steam" /\ t.at = "reading" /\ t.child = "running"

\* any bound on the wait of one attempt goes by while the client is blocked
deadline_passes(p) ==
    /\ BlockedUnbounded(tool[p])
    /\ ~tool[p].overdue
    /\ ToolStep(p, [tool[p] EXCEPT !.overdue = TRUE])
    /\ UNCHANGED lock

ToolInit ==
    /\ MainInit(World(CfgSingle, FALSE, "inst_mods"))
    /\ SideIdle

ToolNext ==
    \/ \E p \in Procs : steamcmd_invoke(p)
    \/ \E p \in Procs : steamcmd_spawn(p)
    \/ \E p \in Procs : steamcmd_wait_returns(p)
    \/ \E p \in Procs : steam_invoke(p)
    \/ \E p \in Procs : mutex_acquire(p)
    \/ \E p \in Procs : mutex_timeout(p)
    \/ \E p \in Procs : steam_spawn(p)
    \/ \E p \in Procs : steam_read_eof(p)
    \/ \E p \in Procs : steam_read_transient(p)
    \/ \E p \in Procs : steam_wait_times_out(p)
    \/ \E p \in Procs : steam_wait_returns(p)
    \/ \E p \in Procs : child_closes_stdout(p)
    \/ \E p \in Procs, rc \in {0, 1} : child_exits(p, rc)
    \/ \E p \in Procs : deadline_passes(p)

ToolSpec == ToolInit /\ [][ToolNext]_vars

\* ======================================================== _sync_from_cache
\* Runs of _sync_from_cache(cache, dest) for one item, step by step as the
\* filesystem sees them.  The cache holds version 2 of the item; dest is
\* absent or holds version 1.  A run may die at any point.
OldVersion == 1
NewVersion == 2

SyncStep(p, a, td) ==
    /\ sync' = [sync EXCEPT ![p] = [at |-> a, todo |-> td]]
    /\ UNCHANGED <<mainvars, tool, lock, lk, tr, dsrc, dl, fn>>

\* tmp = dest.parent / (dest.name + ".tmp"); if tmp.exists(): shutil.rmtree(tmp)
sync_begin(p) ==
    /\ sync[p].at = "idle"
    /\ IF stmp.exists
       THEN SyncStep(p, "rm_tmp", {f[1] : f \in stmp.files})
       ELSE SyncStep(p, "copy_mkdir", {})
    /\ UNCHANGED <<sdest, stmp>>

\* shutil.rmtree(d): the entries listed on entry are unlinked one by one, in
\* the order os.scandir gave them (n is the next one), then the directory is
\* removed; a missing entry or directory, or a directory that is not empty at
\* the end, raises
RmtreeStep(d, td, n) ==
    IF ~d.exists THEN [raised |-> TRUE, dir |-> d, todo |-> td, finished |-> FALSE]
    ELSE IF td = {}
         THEN IF d.files = {}
              THEN [raised |-> FALSE, dir |-> NoDir, todo |-> {}, finished |-> TRUE]
              ELSE [raised |-> TRUE, dir |-> d, todo |-> td, finished |-> FALSE]
         ELSE IF \E f \in d.files : f[1] = n
              THEN [raised |-> FALSE, dir |-> Dir({f \in d.files : f[1] # n}),
                    todo |-> td \ {n}, finished |-> FALSE]
              ELSE [raised |-> TRUE, dir |-> d, todo |-> td, finished |-> FALSE]

\* the entries rmtree may take next
NextEntries(td) == IF td = {} THEN {""} ELSE td

sync_rm_tmp(p) ==
    /\ sync[p].at = "rm_tmp"
    /\ \E n \in NextEntries(sync[p].todo) :
       LET r == RmtreeStep(stmp, sync[p].todo, n)
       IN /\ stmp' = r.dir
          /\ IF r.raised THEN SyncStep(p, "raised", {})
             ELSE IF r.finished THEN SyncStep(p, "copy_mkdir", {})
             ELSE SyncStep(p, "rm_tmp", r.todo)
    /\ UNCHANGED sdest

\* shutil.copytree(cache, tmp, dirs_exist_ok=True): os.makedirs(tmp, exist_ok=True)
sync_copy_mkdir(p) ==
    /\ sync[p].at = "copy_mkdir"
    /\ stmp' = IF stmp.exists THEN stmp ELSE Dir({})
    /\ SyncStep(p, "copy", FileNames)
    /\ UNCHANGED sdest

\* copytree copies one entry of the cache; the target directory must be there
sync_copy_file(p) ==
    /\ sync[p].at = "copy"
    /\ IF sync[p].todo = {}
       THEN /\ IF sdest.exists
               THEN SyncStep(p, "rm_dest", {f[1] : f \in sdest.files})
               ELSE SyncStep(p, "rename", {})
            /\ stmp' = stmp
       ELSE \E n \in sync[p].todo :
               IF stmp.exists
               THEN /\ stmp' = Dir({f \in stmp.files : f[1] # n} \cup {<<n, NewVersion>>})
                    /\ SyncStep(p, "copy", sync[p].todo \ {n})
               ELSE /\ stmp' = stmp
                    /\ SyncStep(p, "raised", {})
    /\ UNCHANGED sdest

\* if dest.exists(): shutil.rmtree(dest)
sync_rm_dest(p) ==
    /\ sync[p].at = "rm_dest"
    /\ \E n \in NextEntries(sync[p].todo) :
       LET r == RmtreeStep(sdest, sync[p].todo, n)
       IN /\ sdest' = r.dir
          /\ IF r.raised THEN SyncStep(p, "raised", {})
             ELSE IF r.finished THEN SyncStep(p, "rename", {})
             ELSE SyncStep(p, "rm_dest", r.todo)
    /\ UNCHANGED stmp

\* tmp.rename(dest): rename(2) replaces an empty directory only
sync_rename(p) ==
    /\ sync[p].at = "rename"
    /\ IF stmp.exists /\ (~sdest.exists \/ sdest.files = {})
       THEN /\ sdest' = stmp
            /\ stmp' = NoDir
            /\ SyncStep(p, "done", {})
       ELSE /\ UNCHANGED <<sdest, stmp>>
            /\ SyncStep(p, "raised", {})

\* the process dies (power loss, kill, container stop)
sync_crash(p) ==
    /\ sync[p].at \in {"rm_tmp", "copy_mkdir", "copy", "rm_dest", "rename"}
    /\ SyncStep(p, "crashed", {})
    /\ UNCHANGED <<sdest, stmp>>

SyncInit ==
    /\ MainInit(World(CfgSingle, FALSE, "inst_mods"))
    /\ tool = [p \in Procs |-> NoTool]
    /\ lock = 0
    /\ sdest \in {NoDir, Complete(OldVersion)}
    /\ stmp \in {NoDir, Dir({<<"addons", OldVersion>>})}
    /\ sync = [p \in Procs |-> NoSync]
    /\ lk = NoLk
    /\ tr = NoRun
    /\ dsrc = NoResolve
    /\ dl = NoDl
    /\ fn = NoFn

SyncNext ==
    \/ \E p \in Procs : sync_begin(p)
    \/ \E p \in Procs : sync_rm_tmp(p)
    \/ \E p \in Procs : sync_copy_mkdir(p)
    \/ \E p \in Procs : sync_copy_file(p)
    \/ \E p \in Procs : sync_rm_dest(p)
    \/ \E p \in Procs : sync_rename(p)
    \/ \E p \in Procs : sync_crash(p)

SyncSpec == SyncInit /\ [][SyncNext]_vars

\* =================================================== link_instance_content
\* One non-dry link_instance_content after another over a fixed configuration
\* and store, step by step as the filesystem sees them.  A run may be killed
\* between any two filesystem operations; the next run starts from the top.
MaxRuns == 2

SamePath(x, l) == x.dir = l.dir /\ x.name = l.name

\* variant: the existing destination is left in place
Unlinked_kept(ls, l) == ls

\* link_path.unlink(missing_ok=True) / shutil.rmtree(link_path)
Unlinked(ls, l) == {x \in ls : ~SamePath(x, l)}

\* link_path.is_symlink() or link_path.exists()
Present(ls, l) == \E x \in ls : SamePath(x, l)

LinkStep(all, l) ==
    /\ inst_links' = {x \in all : x.dir \in InstDirs}
    /\ root_links' = {x \in all : x.dir \notin InstDirs}
    /\ lk' = l
    /\ UNCHANGED <<envvars, store, marker, cache, keys, now, passvars, link_result, plan_out,
                   last_op, tool, lock, sdest, stmp, sync, tr, dsrc, dl, fn>>

\* entry: the layout is logged and checked, nothing is touched yet
link_begin ==
    /\ lk.at \in {"idle", "done"}
    /\ lk.runs < MaxRuns
    /\ ~LayoutCollides
    /\ LinkStep(inst_links \cup root_links, [lk EXCEPT !.at = "clear", !.k = 0, !.half = FALSE])

\* for child in list(d.iterdir()): unlink or rmtree, inst_mods before inst_servermods
link_clear_child ==
    /\ lk.at = "clear"
    /\ LET first == {x \in inst_links : x.dir = "inst_mods"}
           d == IF first # {} THEN first ELSE inst_links
       IN \E x \in d : LinkStep((inst_links \ {x}) \cup root_links, lk)

link_clear_done ==
    /\ lk.at = "clear"
    /\ inst_links = {}
    /\ LinkStep(root_links, [lk EXCEPT !.at = "ops", !.k = 1])

\* _recreate_link, first half: whatever is at link_path is removed
link_unlink ==
    /\ lk.at = "ops"
    /\ lk.k <= Len(LinkOps(cfg))
    /\ ~lk.half
    /\ Present(inst_links \cup root_links, LinkOps(cfg)[lk.k])
    /\ LinkStep(Unlinked(inst_links \cup root_links, LinkOps(cfg)[lk.k]), [lk EXCEPT !.half = TRUE])

\* _recreate_link, second half: link_path.symlink_to(target)
link_symlink ==
    /\ lk.at = "ops"
    /\ lk.k <= Len(LinkOps(cfg))
    /\ lk.half \/ ~Present(inst_links \cup root_links, LinkOps(cfg)[lk.k])
    /\ LinkStep(inst_links \cup root_links \cup {LinkOps(cfg)[lk.k]},
                [lk EXCEPT !.k = lk.k + 1, !.half = FALSE])

\* log.info("Instance symlinks prepared")
link_return ==
    /\ lk.at = "ops"
    /\ lk.k > Len(LinkOps(cfg))
    /\ LinkStep(inst_links \cup root_links, [lk EXCEPT !.at = "done", !.runs = lk.runs + 1])

\* the process dies between two filesystem operations
link_killed ==
    /\ lk.at \in {"clear", "ops"}
    /\ LinkStep(inst_links \cup root_links,
                [lk EXCEPT !.at = "idle", !.k = 0, !.half = FALSE, !.crashed = TRUE])

\* a store with the directories in ds installed
StoreWith(ds) == [d \in Dests |-> IF d \in ds THEN TreeA ELSE NoTree]
MarkersWith(ds) == [d \in Dests |-> IF d \in ds THEN Marker(1, 1, 1) ELSE NoMarker]

\* what an earlier configuration left behind: a link under a name about to be
\* reused and one under a name no longer configured
OldInstLinks == {Link("inst_mods", "1", <<"maps", 1>>), Link("inst_servermods", "old", <<"mods", 2>>)}
OldRootLinks == {Link("arma_root", "@1", <<"maps", 1>>), Link("arma_root", "@old", <<"mods", 2>>)}

LinkInit ==
    \E c \in Configs \cup {CfgClient}, ds \in SUBSET {<<"mods", 1>>, <<"mods", 2>>, <<"maps", 2>>, <<"servermods", 2>>},
       il \in {{}, OldInstLinks}, rl \in {{}, OldRootLinks} :
        /\ MainInitOn(World(c, FALSE, "inst_mods"), StoreWith(ds), MarkersWith(ds), il, rl)
        /\ tool = [p \in Procs |-> NoTool]
        /\ lock = 0
        /\ sdest = NoDir
        /\ stmp = NoDir
        /\ sync = [p \in Procs |-> NoSync]
        /\ lk = [NoLk EXCEPT !.il0 = il, !.rl0 = rl]
        /\ tr = NoRun
        /\ dsrc = NoResolve
        /\ dl = NoDl
        /\ fn = NoFn

LinkNext ==
    \/ link_begin
    \/ link_clear_child
    \/ link_clear_done
    \/ link_unlink
    \/ link_symlink
    \/ link_return
    \/ link_killed

LinkSpec == LinkInit /\ [][LinkNext]_vars

\* ============================================================ SteamCMD._run
\* The end of SteamCMD._run: the child has exited with rc and the pump threads
\* have collected ring.  A line is the set of patterns it matches.
Patterns == {"NOT_FOUND", "ACCESS_DENIED", "RATE_LIMIT"}
tail_lines == 10
MaxRing == 12
ExitCodes == {0, 1, -9}

\* ring[-n:]
LastLines(ring, n) ==
    IF Len(ring) <= n THEN ring ELSE SubSeq(ring, Len(ring) - n + 1, Len(ring))

\* _RE_x.search("\n".join(tail))
Search(pat, lines) == \E i \in 1..Len(lines) : pat \in lines[i]

SteamCmdError(kind, rc) == [kind |-> kind, rc |-> rc]

\* variant: the rate-limit pattern is looked for first
Classify_rate_first(rc, ring) ==
    LET tail == LastLines(ring, tail_lines)
    IN IF rc = 0 THEN <<>>
       ELSE IF Search("RATE_LIMIT", tail) THEN <<SteamCmdError("RATE_LIMIT", rc)>>
       ELSE IF Search("NOT_FOUND", tail) THEN <<SteamCmdError("NOT_FOUND", rc)>>
       ELSE IF Search("ACCESS_DENIED", tail) THEN <<SteamCmdError("ACCESS_DENIED", rc)>>
       ELSE <<SteamCmdError("FAILED", rc)>>

\* if rc != 0: the errors raised, in the order of the tests
Classify(rc, ring) ==
    LET tail == LastLines(ring, tail_lines)
    IN IF rc = 0 THEN <<>>
       ELSE IF Search("NOT_FOUND", tail) THEN <<SteamCmdError("NOT_FOUND", rc)>>
       ELSE IF Search("ACCESS_DENIED", tail) THEN <<SteamCmdError("ACCESS_DENIED", rc)>>
       ELSE IF Search("RATE_LIMIT", tail) THEN <<SteamCmdError("RATE_LIMIT", rc)>>
       ELSE <<SteamCmdError("FAILED", rc)>>

\* rc = proc.wait() has returned; the tests of lines 113-122 run
steamcmd_run_ends ==
    /\ tr.at = "exited"
    /\ tr' = [tr EXCEPT !.at = IF Classify(tr.rc, tr.ring) = <<>> THEN "returned" ELSE "raised",
                        !.errors = Classify(tr.rc, tr.ring)]
    /\ UNCHANGED <<mainvars, tool, lock, sdest, stmp, sync, lk, dsrc, dl, fn>>

\* a ring of n lines of which lines a and b match the patterns in x and in y
RingOf(n, a, x, b, y) == [i \in 1..n |-> IF i = a THEN x ELSE IF i = b THEN y ELSE {}]

RunInit ==
    /\ MainInit(World(CfgSingle, FALSE, "inst_mods"))
    /\ tool = [p \in Procs |-> NoTool]
    /\ lock = 0
    /\ sdest = NoDir
    /\ stmp = NoDir
    /\ sync = [p \in Procs |-> NoSync]
    /\ lk = NoLk
    /\ dsrc = NoResolve
    /\ dl = NoDl
    /\ fn = NoFn
    /\ \E rc \in ExitCodes, n \in 0..MaxRing :
         \E a \in 0..n, b \in 0..n, x \in SUBSET Patterns, y \in SUBSET Patterns :
            tr = [at |-> "exited", rc |-> rc, ring |-> RingOf(n, a, x, b, y), errors |-> <<>>]

RunNext == steamcmd_run_ends

RunSpec == RunInit /\ [][RunNext]_vars

\* ================================================ _resolve_dlc_link_source
\* The directory a DLC was installed into: whether it exists, whether it holds
\* addons/ itself, and its children in the order iterdir() yields them.  A path
\* below the install directory is the sequence of names leading to it, <<>> the
\* install directory itself.
ChildNames == <<"a", "b", "gm">>
MaxChildren == 3
Child(n, d, ad) == [name |-> n, dir |-> d, addons |-> ad]
\* a file, an empty directory, a directory holding addons/
ChildKinds(n) == {Child(n, FALSE, FALSE), Child(n, TRUE, FALSE), Child(n, TRUE, TRUE)}

\* str comparison of two child names
Rank(n) == CHOOSE i \in DOMAIN ChildNames : ChildNames[i] = n
NameLess(m, n) == Rank(m) < Rank(n)

Chosen(path, warnings) == [path |-> path, warnings |-> warnings]

\* variant: the first hit in enumeration order is taken
PickOf_first(hits) == hits[1]

\* sorted(hits, key=lambda x: x.name)[0]
PickOf(hits) ==
    hits[CHOOSE i \in DOMAIN hits : \A j \in DOMAIN hits : j = i \/ NameLess(hits[i].name, hits[j].name)]

resolve_dlc_link_source(t, mount_name) ==
    LET children == IF t.exists THEN SelectSeq(t.listing, LAMBDA c : c.dir) ELSE <<>>
        hits == SelectSeq(children, LAMBDA c : c.addons)
    IN IF t.addons THEN Chosen(<<>>, 0)
       ELSE IF \E i \in DOMAIN t.listing : t.listing[i].name = mount_name /\ t.listing[i].addons
            THEN Chosen(<<mount_name>>, 0)
       ELSE IF Len(hits) = 1 THEN Chosen(<<hits[1].name>>, 0)
       ELSE IF Len(hits) > 1 THEN Chosen(<<PickOf(hits).name>>, 1)
       ELSE Chosen(<<>>, 1)

resolve_returns ==
    /\ dsrc.at = "called"
    /\ dsrc' = [dsrc EXCEPT !.at = "returned", !.out = resolve_dlc_link_source(dsrc.target, dsrc.mount)]
    /\ UNCHANGED <<mainvars, tool, lock, sdest, stmp, sync, lk, tr, dl, fn>>

\* the listings of at most MaxChildren children, in every enumeration order
Listings ==
    UNION {{l \in [1..n -> UNION {ChildKinds(ChildNames[i]) : i \in DOMAIN ChildNames}] :
               \A i, j \in 1..n : i # j => l[i].name # l[j].name} : n \in 0..MaxChildren}

Targets ==
    {[exists |-> FALSE, addons |-> FALSE, listing |-> <<>>]}
    \cup {[exists |-> TRUE, addons |-> ad, listing |-> l] : ad \in BOOLEAN, l \in Listings}

ResolveInit ==
    /\ MainInit(World(CfgSingle, FALSE, "inst_mods"))
    /\ tool = [p \in Procs |-> NoTool]
    /\ lock = 0
    /\ sdest = NoDir
    /\ stmp = NoDir
    /\ sync = [p \in Procs |-> NoSync]
    /\ lk = NoLk
    /\ tr = NoRun
    /\ dl = NoDl
    /\ fn = NoFn
    /\ \E t \in Targets, m \in {"gm", "b", "contact"} :
         dsrc = [NoResolve EXCEPT !.at = "called", !.target = t, !.mount = m]

ResolveNext == resolve_returns

ResolveSpec == ResolveInit /\ [][ResolveNext]_vars

\* ============================================================== ensure_dlcs
\* sync_content over a configuration with DLCs: ensure_dlcs, then
\* ensure_workshop, then link_instance_content.
CurDlc == cfg.dlcs[dl.pos]

\* the layouts the tool leaves in a DLC's install directory
FlatTree == [exists |-> TRUE, addons |-> TRUE, listing |-> <<>>]
AmbiguousTree ==
    [exists |-> TRUE, addons |-> FALSE, listing |-> <<Child("b", TRUE, TRUE), Child("a", TRUE, TRUE)>>]
DlcTrees == {FlatTree, AmbiguousTree}

DlcStep(d) ==
    /\ dl' = d
    /\ UNCHANGED <<fs, envvars, now, tool, lock, sdest, stmp, sync, lk, tr, dsrc, fn>>

\* cm.ensure_dlcs(cfg.active.dlcs, ..., dry_run=dry_run), the first call of sync_content
ensure_dlcs_begin(d) ==
    /\ pc = "idle"
    /\ cfg.dlcs # <<>>
    /\ pc' = "dlc"
    /\ dry_run' = d
    /\ results' = <<>>
    /\ failures' = <<>>
    /\ outcomes' = <<>>
    /\ batch' = NoBatch
    /\ pos' = 0
    /\ link_result' = "none"
    /\ plan_out' = NoPlan
    /\ last_op' = "ensure_dlcs"
    /\ UNCHANGED <<before, ev, attempt, call>>
    /\ DlcStep([dl EXCEPT !.at = "run", !.pos = 1, !.results = <<>>, !.error = ""])

\* the current DLC ends with a result: results.append(InstallResult(..., changed=not before))
DlcEnds(d) ==
    /\ DlcStep([d EXCEPT !.pos = dl.pos + 1,
                         !.results = Append(dl.results,
                              InstallResult("dlc", CurDlc.app_id,
                                            dl.marker[CurDlc.mount_name].state = "absent"))])
    /\ last_op' = "ensure_dlcs"
    /\ UNCHANGED <<pc, passvars, link_result, plan_out>>

\* variant: a dry run refreshes the marker
dlc_dry_run_marking ==
    /\ pc = "dlc"
    /\ dl.pos <= Len(cfg.dlcs)
    /\ dry_run
    /\ DlcEnds([dl EXCEPT !.marker[CurDlc.mount_name] = WriteModmeta(now, now)])

\* if dry_run: results.append(...); continue
dlc_dry_run ==
    /\ pc = "dlc"
    /\ dl.pos <= Len(cfg.dlcs)
    /\ dry_run
    /\ DlcEnds(dl)

\* if self.settings.skip_install: log.info(...)
dlc_skip_install ==
    /\ pc = "dlc"
    /\ dl.pos <= Len(cfg.dlcs)
    /\ ~dry_run
    /\ skip_install
    /\ DlcEnds(dl)

\* the two links of a DLC: /arma3/<mount_name> and /arma3/dlcs/<mount_name>
DlcLinks(ls, m, src) ==
    RecreateLink(RecreateLink(ls, Link("arma_root", m, src)), Link("arma_root/dlcs", m, src))

\* self.steamcmd.ensure_app(...) returns after leaving layout t; the marker is
\* written, the link source resolved, the two links recreated
dlc_installed(t) ==
    /\ pc = "dlc"
    /\ dl.pos <= Len(cfg.dlcs)
    /\ ~dry_run
    /\ ~skip_install
    /\ LET m == CurDlc.mount_name
           src == <<m>> \o resolve_dlc_link_source(t, m).path
       IN DlcEnds([dl EXCEPT !.tree[m] = t,
                             !.marker[m] = WriteModmeta(now, now),
                             !.links = DlcLinks(dl.links, m, src)])

\* self.steamcmd.ensure_app(...) raises SteamCmdError(kind): nothing in
\* ensure_dlcs or sync_content catches it
dlc_install_raises(kind) ==
    /\ pc = "dlc"
    /\ dl.pos <= Len(cfg.dlcs)
    /\ ~dry_run
    /\ ~skip_install
    /\ kind # "OK"
    /\ pc' = "idle"
    /\ last_op' = "ensure_dlcs"
    /\ DlcStep([dl EXCEPT !.at = "raised", !.error = kind])
    /\ UNCHANGED <<dry_run, pos, results, failures, before, ev, attempt, call, outcomes, batch,
                   link_result, plan_out>>

\* return results
ensure_dlcs_end ==
    /\ pc = "dlc"
    /\ dl.pos > Len(cfg.dlcs)
    /\ pc' = "dlcs_done"
    /\ last_op' = "ensure_dlcs"
    /\ DlcStep([dl EXCEPT !.at = "returned"])
    /\ UNCHANGED <<dry_run, pos, results, failures, before, ev, attempt, call, outcomes, batch,
                   link_result, plan_out>>

DlcInit ==
    /\ \E sk \in BOOLEAN : MainInit(World(CfgDlc, sk, "inst_mods"))
    /\ SideIdle

DlcNext ==
    \/ \E d \in BOOLEAN : ensure_dlcs_begin(d)
    \/ dlc_dry_run
    \/ dlc_skip_install
    \/ \E t \in DlcTrees : dlc_installed(t)
    \/ \E kind \in Rcs : dlc_install_raises(kind)
    \/ ensure_dlcs_end
    \/ \E d \in BOOLEAN : ensure_workshop_begin(d)
    \/ ensure_workshop_end
    \/ item_dry_run
    \/ item_skip_install
    \/ \E ans \in 0..MaxNow : item_evaluate(ans)
    \/ item_up_to_date
    \/ item_start_download
    \/ \E rc \in Rcs, t \in Contents(1) \cup {NoTree} : steam_run(rc, t)
    \/ download_returned
    \/ download_raised
    \/ item_no_cache
    \/ \E ans \in 0..MaxNow : item_install(ans)
    \/ link_instance_content

DlcSpec == DlcInit /\ [][DlcNext]_vars

\* ==================================================== logged command lines
\* login names and passwords of the deployment; one of each needs quoting or
\* starts like a command of the tool
Users == {"alice", "srv user", "+bob"}
Passwords == {"hunter2", "pass word", "+hunter2"}

\* str.startswith("+") over the tokens of a command line
StartsWithPlus(t) ==
    t \in {"+login", "+quit", "+force_install_dir", "+app_update",
           "+workshop_download_item", "+bob", "+hunter2"}

\* shlex.quote(x): a token with a character outside [A-Za-z0-9@%+=:,./_-]
\* is wrapped in single quotes, its text is kept
Quote(x) == [text |-> x, quoted |-> x \in {"srv user", "pass word", "***pw***", "<REDACTED_USER>", "<REDACTED_PW>"}]

\* ' '.join(tokens): the tokens as they are
Join(x) == [text |-> x, quoted |-> FALSE]

\* SteamCMD.ensure_app / SteamCMD.workshop_download: the argument lists
EnsureAppCmd(user, pw, validate) ==
    <<"steamcmd.sh", "+force_install_dir", "/arma3", "+login", user, pw,
      "+app_update", "233780">>
        \o (IF validate THEN <<"validate">> ELSE <<>>) \o <<"+quit">>

WorkshopDownloadCmd(user, pw, validate) ==
    <<"steamcmd.sh", "+login", user, pw, "+workshop_download_item", "107410", "1">>
        \o (IF validate THEN <<"validate">> ELSE <<>>) \o <<"+quit">>

Cmds ==
    UNION {{EnsureAppCmd(u, p, v), WorkshopDownloadCmd(u, p, v)} :
              <<u, p, v>> \in Users \X Passwords \X BOOLEAN}

\* SteamCMD._mask_steamcmd: the while loop from index i on
RECURSIVE MaskFrom(_, _)
MaskFrom(cmd, i) ==
    IF i > Len(cmd) THEN <<>>
    ELSE IF cmd[i] = "+login"
         THEN <<cmd[i]>>
                \o (IF i + 1 <= Len(cmd) THEN <<cmd[i + 1]>> ELSE <<>>)
                \o (IF i + 2 <= Len(cmd) THEN <<"***pw***">> ELSE <<>>)
                \o MaskFrom(cmd, i + 3)
         ELSE <<cmd[i]>> \o MaskFrom(cmd, i + 1)

mask_steamcmd(cmd) ==
    LET out == MaskFrom(cmd, 1) IN [k \in DOMAIN out |-> Quote(out[k])]

\* steam.py, SteamCMD._mask_cmd: only the first '+login' is looked at
mask_cmd(cmd) ==
    LET logins == {i \in DOMAIN cmd : cmd[i] = "+login"}
        idx == IF logins = {} THEN 0 ELSE CHOOSE i \in logins : \A j \in logins : i <= j
    IN  [k \in DOMAIN cmd |->
           IF idx # 0 /\ k = idx + 1 THEN "<REDACTED_USER>"
           ELSE IF idx # 0 /\ k = idx + 2 /\ ~StartsWithPlus(cmd[k]) THEN "<REDACTED_PW>"
           ELSE cmd[k]]

\* SteamCMD._run: log.info("SteamCMD: %s", self._mask_steamcmd(cmd))
steamcmd_run_logs ==
    /\ fn.op = "cmd"
    /\ fn' = [fn EXCEPT !.op = "_mask_steamcmd", !.logged = mask_steamcmd(fn.cmd)]
    /\ UNCHANGED <<mainvars, tool, lock, sdest, stmp, sync, lk, tr, dsrc, dl>>

\* steam.py, SteamCMD._steamcmd_run: logger.info(f"SteamCMD attempt ...: {' '.join(masked_cmd)}")
steam_run_logs ==
    /\ fn.op = "cmd"
    /\ fn' = [fn EXCEPT !.op = "_mask_cmd",
                        !.logged = [k \in DOMAIN fn.cmd |-> Join(mask_cmd(fn.cmd)[k])]]
    /\ UNCHANGED <<mainvars, tool, lock, sdest, stmp, sync, lk, tr, dsrc, dl>>

MaskInit ==
    /\ MainInit(World(CfgSingle, FALSE, "inst_mods"))
    /\ tool = [p \in Procs |-> NoTool] /\ lock = 0 /\ sdest = NoDir /\ stmp = NoDir
    /\ sync = [p \in Procs |-> NoSync]
    /\ lk = NoLk /\ tr = NoRun /\ dsrc = NoResolve /\ dl = NoDl
    /\ \E u \in Users, p \in Passwords, v \in BOOLEAN :
         \E c \in {EnsureAppCmd(u, p, v), WorkshopDownloadCmd(u, p, v)} :
            fn = [op |-> "cmd", cmd |-> c, user |-> u, pw |-> p, logged |-> <<>>]

MaskNext == steamcmd_run_logs \/ steam_run_logs

MaskSpec == MaskInit /\ [][MaskNext]_vars

\* ======================================================= one pass, in order
\* a configuration with two DLCs, two mods in an order that is not the
\* order of their ids, and a map
CfgOrder ==
    [mods |-> <<Item(2, "", FALSE), Item(1, "ace", FALSE)>>, clientmods |-> <<>>,
     maps |-> <<Item(2, "cba", TRUE)>>, servermods |-> <<>>,
     ocap |-> Ocap(FALSE, "servermods"),
     dlcs |-> <<Dlc("Contact", 1, "contact"), Dlc("Global Mobilization", 2, "gm")>>]

OrderInit ==
    /\ \E sk \in BOOLEAN : MainInit(World(CfgOrder, sk, "inst_mods"))
    /\ SideIdle

\* Orchestrator.sync_content: ensure_dlcs, ensure_workshop, link_instance_content
OrderSpec == OrderInit /\ [][DlcNext]_vars

\* ================================================== ConfigMerger.merge_mods
\* Optional[List[FileConfig_ModEntry]]: None, or a list of mod ids
None == [none |-> TRUE, list |-> <<>>]
Some(l) == [none |-> FALSE, list |-> l]
ModLists == {None, Some(<<>>), Some(<<1>>), Some(<<1, 2>>), Some(<<999>>)}

\* two of the eleven category fields of FileConfig_Mods; the loop treats
\* every field alike
categories == {"baseMods", "maps"}
FileConfig_Mods == [categories -> ModLists]

\* if override_list and len(override_list) > 0: has_any_override = True
has_any_override(override_mods) ==
    \E cat \in categories : ~override_mods[cat].none /\ Len(override_mods[cat].list) > 0

\* ConfigMerger.merge_mods for an override_mods that is not None
merge_mods(default_mods, override_mods) ==
    IF ~has_any_override(override_mods) THEN default_mods
    ELSE [cat \in categories |->
            LET default_list == default_mods[cat].list   \* getattr(...) or []
                override_list == override_mods[cat]
            IN  IF override_list.none THEN Some(default_list)
                ELSE IF Len(override_list.list) > 0 THEN Some(override_list.list)
                ELSE Some(default_list)]

\* merger.merge_mods(default_mods, override_mods) is called
merge_mods_returns ==
    /\ fn.op = "args"
    /\ fn' = [fn EXCEPT !.op = "merge_mods", !.result = merge_mods(fn.default_mods, fn.override_mods)]
    /\ UNCHANGED <<mainvars, tool, lock, sdest, stmp, sync, lk, tr, dsrc, dl>>

MergeInit ==
    /\ MainInit(World(CfgSingle, FALSE, "inst_mods"))
    /\ tool = [p \in Procs |-> NoTool] /\ lock = 0 /\ sdest = NoDir /\ stmp = NoDir
    /\ sync = [p \in Procs |-> NoSync]
    /\ lk = NoLk /\ tr = NoRun /\ dsrc = NoResolve /\ dl = NoDl
    /\ \E d \in FileConfig_Mods, o \in FileConfig_Mods :
          fn = [op |-> "args", default_mods |-> d, override_mods |-> o, result |-> d]

MergeNext == merge_mods_returns

MergeSpec == MergeInit /\ [][MergeNext]_vars

\* ========================================================= cli: run --dry-run
\* fs_layout.ensure_dirs: the directories of the layout
LayoutDirs ==
    {"dlcs", "maps", "mods", "ocap", "inst_mods", "inst_servermods", "inst_userconfig",
     "inst_config", "inst_mpmissions", "inst_logs", "arma_cfg_dir", "arma_keys_dir"}

\* the directories that exist when the command starts: a volume that only
\* holds the instance's configuration (server.json is read by the plan), one
\* that has been logged to, a complete deployment
Volumes == {{"inst_config"}, {"inst_config", "inst_logs"}, LayoutDirs}

NoCli == [op |-> "cli", at |-> "start", dirs0 |-> {}, dirs |-> {}, files |-> {},
          credentials |-> TRUE, spawned |-> 0, arma_updated |-> FALSE,
          printed |-> NoPlan, rc |-> -1]

CliStep(c) ==
    /\ fn' = c
    /\ UNCHANGED <<mainvars, tool, lock, sdest, stmp, sync, lk, tr, dsrc, dl>>

\* setup_logging(settings): logs_dir.mkdir(parents=True, exist_ok=True) and
\* RotatingFileHandler(logs_dir / "launcher.log") opens the file
setup_logging ==
    /\ fn.at = "start"
    /\ CliStep([fn EXCEPT !.at = "logging", !.dirs = @ \cup {"inst_logs"},
                          !.files = @ \cup {"launcher.log"}])

\* orch.prepare_environment(): ensure_dirs(self.layout)
prepare_environment ==
    /\ fn.at = "logging"
    /\ CliStep([fn EXCEPT !.at = "prepared", !.dirs = @ \cup LayoutDirs])

\* orch.ensure_arma(): if self.settings.skip_install: return
ensure_arma_skip_install ==
    /\ fn.at = "prepared"
    /\ skip_install
    /\ CliStep([fn EXCEPT !.at = "ensured"])

\* orch.ensure_arma(): load_credentials raises RuntimeError before any process
ensure_arma_no_credentials ==
    /\ fn.at = "prepared"
    /\ ~skip_install
    /\ ~fn.credentials
    /\ CliStep([fn EXCEPT !.at = "raised"])

\* orch.ensure_arma(): steamcmd.ensure_app(app_id, arma_root, validate=True);
\* _run_with_backoff starts the tool n times, the first n - 1 runs rate
\* limited, the last one ending with kind
ensure_arma(n, kind) ==
    /\ fn.at = "prepared"
    /\ ~skip_install
    /\ fn.credentials
    /\ kind = "RATE_LIMIT" => n = max_attempts
    /\ CliStep([fn EXCEPT !.at = IF kind = "OK" THEN "ensured" ELSE "raised",
                          !.spawned = n,
                          !.arma_updated = (kind = "OK")])

\* if args.dry_run: plan = orch.plan().to_dict(); generate_server_cfg(dry_run=True)
\* only names the path; print; return 0 if plan.get("ok", True) else 1
run_dry_run ==
    /\ fn.at = "ensured"
    /\ CliStep([fn EXCEPT !.at = "exit",
                          !.printed = [ok |-> PlanOk(cfg), actions |-> PlanActions(cfg)],
                          !.rc = IF PlanOk(cfg) THEN 0 ELSE 1])

CliInit ==
    /\ \E w \in Worlds : MainInit(w)
    /\ tool = [p \in Procs |-> NoTool] /\ lock = 0 /\ sdest = NoDir /\ stmp = NoDir
    /\ sync = [p \in Procs |-> NoSync]
    /\ lk = NoLk /\ tr = NoRun /\ dsrc = NoResolve /\ dl = NoDl
    /\ \E v \in Volumes, cr \in BOOLEAN :
          fn = [NoCli EXCEPT !.dirs0 = v, !.dirs = v, !.credentials = cr]

CliNext ==
    \/ setup_logging
    \/ prepare_environment
    \/ ensure_arma_skip_install
    \/ ensure_arma_no_credentials
    \/ \E n \in 1..max_attempts, kind \in Rcs : ensure_arma(n, kind)
    \/ run_dry_run

CliSpec == CliInit /\ [][CliNext]_vars

\* ========================================================== merge_mods_list
\* the longest list of mod entries or ids drawn
MaxMods == 2

\* ModEntry(id, name); the name tells an entry of the base from a new one
ModEntry(i, n) == [id |-> i, name |-> n]
ListsOver(S) == UNION {[1..n -> S] : n \in 0..MaxMods}
BaseLists == ListsOver({ModEntry(i, "base") : i \in Ids})
NewLists == ListsOver({ModEntry(i, "new") : i \in Ids})
IdLists == ListsOver(Ids)
Optional(S) == {None} \cup {Some(l) : l \in S}

\* ModsOverride(added, removed, replace), or no override at all
NoOverride == [none |-> TRUE, added |-> None, removed |-> None, replace |-> None]
ModsOverride(a, r, p) == [none |-> FALSE, added |-> a, removed |-> r, replace |-> p]

\* Python truth of an optional list: not None and not empty
Truthy(o) == ~o.none /\ o.list # <<>>

\* variant: the ids in removed are dropped after the added entries are appended
merge_mods_list_filters_added(base, override) ==
    IF override.none THEN base
    ELSE IF ~override.replace.none THEN override.replace.list
    ELSE LET extended == IF Truthy(override.added) THEN base \o override.added.list ELSE base
             removed_ids == {override.removed.list[k] : k \in DOMAIN override.removed.list}
         IN  IF Truthy(override.removed)
             THEN SelectSeq(extended, LAMBDA m : m.id \notin removed_ids)
             ELSE extended

\* models_variants.merge_mods_list(base, override)
merge_mods_list(base, override) ==
    IF override.none THEN base
    ELSE IF ~override.replace.none THEN override.replace.list
    ELSE LET removed_ids == {override.removed.list[k] : k \in DOMAIN override.removed.list}
             result == IF Truthy(override.removed)
                       THEN SelectSeq(base, LAMBDA m : m.id \notin removed_ids)
                       ELSE base
         IN  IF Truthy(override.added) THEN result \o override.added.list ELSE result

\* merged = merge_mods_list(base, override)
merge_mods_list_returns ==
    /\ fn.op = "lists"
    /\ fn' = [fn EXCEPT !.op = "merge_mods_list", !.merged = merge_mods_list(fn.base, fn.override)]
    /\ UNCHANGED <<mainvars, tool, lock, sdest, stmp, sync, lk, tr, dsrc, dl>>

VariantInit ==
    /\ MainInit(World(CfgSingle, FALSE, "inst_mods"))
    /\ tool = [p \in Procs |-> NoTool] /\ lock = 0 /\ sdest = NoDir /\ stmp = NoDir
    /\ sync = [p \in Procs |-> NoSync]
    /\ lk = NoLk /\ tr = NoRun /\ dsrc = NoResolve /\ dl = NoDl
    /\ \E b \in BaseLists :
         \E o \in {NoOverride} \cup {ModsOverride(a, r, p) :
                       <<a, r, p>> \in Optional(NewLists) \X Optional(IdLists) \X Optional(NewLists)} :
            fn = [op |-> "lists", base |-> b, override |-> o, merged |-> <<>>]

VariantNext == merge_mods_list_returns

VariantSpec == VariantInit /\ [][VariantNext]_vars

\* ========================================================== FileConfigStore
\* the names passed to the store; the last one is another spelling of the
\* path of "staging"
ConfigNames == {"production", "staging", "event", "staging/"}

\* layout.config_dir(name) = configs_dir / name: pathlib drops a trailing
\* slash, the directory entry is the last path component
config_dir(name) == IF name = "staging/" THEN "staging" ELSE name

\* [d.name for d in configs_dir.iterdir() if ... (d / "metadata.json").exists()]
list_configs(st) == st.dirs

\* raw.get("activeConfig", "production")
get_active_config(st) == IF st.active = "" THEN "production" ELSE st.active

NoStore == [op |-> "store", dirs |-> {}, active |-> "", was_set |-> FALSE,
            call |-> "none", name |-> "", raised |-> FALSE]

StoreStep(st, method, name, raised) ==
    /\ fn.op = "store"
    /\ fn' = [st EXCEPT !.call = method, !.name = name, !.raised = raised]
    /\ UNCHANGED <<mainvars, tool, lock, sdest, stmp, sync, lk, tr, dsrc, dl>>

\* FileConfigStore.create_config(name): metadata.json is written into
\* configs_dir / name
create_config(name) ==
    IF name \in list_configs(fn)
    THEN StoreStep(fn, "create_config", name, TRUE)
    ELSE StoreStep([fn EXCEPT !.dirs = @ \cup {config_dir(name)}], "create_config", name, FALSE)

\* FileConfigStore.set_active_config(name)
set_active_config(name) ==
    IF name \notin list_configs(fn)
    THEN StoreStep(fn, "set_active_config", name, TRUE)
    ELSE StoreStep([fn EXCEPT !.active = name, !.was_set = TRUE], "set_active_config", name, FALSE)

\* FileConfigStore.delete_config(name): the name is compared as a string,
\* shutil.rmtree(cfg_dir, ignore_errors=True) removes the directory
delete_config(name) ==
    IF get_active_config(fn) = name
    THEN StoreStep(fn, "delete_config", name, TRUE)
    ELSE StoreStep([fn EXCEPT !.dirs = @ \ {config_dir(name)}], "delete_config", name, FALSE)

StoreInit ==
    /\ MainInit(World(CfgSingle, FALSE, "inst_mods"))
    /\ tool = [p \in Procs |-> NoTool] /\ lock = 0 /\ sdest = NoDir /\ stmp = NoDir
    /\ sync = [p \in Procs |-> NoSync]
    /\ lk = NoLk /\ tr = NoRun /\ dsrc = NoResolve /\ dl = NoDl
    /\ fn = NoStore

StoreNext ==
    \/ \E name \in ConfigNames : create_config(name)
    \/ \E name \in ConfigNames : set_active_config(name)
    \/ \E name \in ConfigNames : delete_config(name)

StoreSpec == StoreInit /\ [][StoreNext]_vars

\* ===================================== markers written by the first launcher
\* steam.py set_local_update_time writes {steamid, name, timestamp} into the
\* same .modmeta.json: a readable marker without synced_at and last_checked
LegacyMarker(ts) == Marker(ts, 0, 0)

\* the canonical directories of the items of a configuration
ItemDests(c) == {DestOf(WorkItems(c)[p].kind, WorkItems(c)[p].item.id) : p \in DOMAIN WorkItems(c)}

\* a deployment whose items are installed, their markers written by this
\* launcher or by the first one
MarkerInit ==
    /\ \E c \in {CfgSingle, CfgMixed}, sk \in BOOLEAN, mk \in {Marker(1, 1, 1), LegacyMarker(1)} :
          MainInitOn(World(c, sk, "inst_mods"), StoreWith(ItemDests(c)),
                     [d \in Dests |-> IF d \in ItemDests(c) THEN mk ELSE NoMarker], {}, {})
    /\ SideIdle

MarkerSpec == MarkerInit /\ [][Next]_vars

\* ================================== the install marker and an interrupted install
\* marker = dest / ".modmeta.json": the marker is an entry of the canonical
\* directory itself
MarkerFile == ".modmeta.json"

\* an installed item: the complete tree of version v and the marker of that install
Installed(v) == Dir((FileNames \X {v}) \cup {<<MarkerFile, v>>})

\* self._write_modmeta(marker, ...) after _sync_from_cache has returned
install_writes_marker(p) ==
    /\ sync[p].at = "done"
    /\ IF sdest.exists
       THEN /\ sdest' = Dir({f \in sdest.files : f[1] # MarkerFile} \cup {<<MarkerFile, NewVersion>>})
            /\ SyncStep(p, "marked", {})
       ELSE /\ sdest' = sdest
            /\ SyncStep(p, "raised", {})
    /\ UNCHANGED stmp

\* the process dies between the rename and the write of the marker
install_crash_unmarked(p) ==
    /\ sync[p].at = "done"
    /\ SyncStep(p, "crashed", {})
    /\ UNCHANGED <<sdest, stmp>>

\* the next pass finds the item not up to date (no marker, a tree that fails
\* the minimal check, or a newer remote version) and installs it again
next_pass_installs(p) ==
    /\ sync[p].at \in {"crashed", "raised"}
    /\ SyncStep(p, "idle", {})
    /\ UNCHANGED <<sdest, stmp>>

\* an item that is not installed, copied but not marked, or installed in the
\* previous version; a staging directory may be left from an earlier run
InstallInit ==
    /\ MainInit(World(CfgSingle, FALSE, "inst_mods"))
    /\ tool = [p \in Procs |-> NoTool]
    /\ lock = 0
    /\ sdest \in {NoDir, Complete(OldVersion), Installed(OldVersion)}
    /\ stmp \in {NoDir, Dir({<<"addons", OldVersion>>}), Complete(OldVersion)}
    /\ sync = [p \in Procs |-> NoSync]
    /\ lk = NoLk
    /\ tr = NoRun
    /\ dsrc = NoResolve
    /\ dl = NoDl
    /\ fn = NoFn

\* one install of the item: process 1 only
InstallNext ==
    \/ sync_begin(1)
    \/ sync_rm_tmp(1)
    \/ sync_copy_mkdir(1)
    \/ sync_copy_file(1)
    \/ sync_rm_dest(1)
    \/ sync_rename(1)
    \/ sync_crash(1)
    \/ install_writes_marker(1)
    \/ install_crash_unmarked(1)
    \/ next_pass_installs(1)

InstallSpec == InstallInit /\ [][InstallNext]_vars

\* =================================== link_instance_content on any layout
\* The clearing loop and the links over a layout whose inst_mods may resolve
\* into the store: ARMA_INSTANCE equal to ARMA_COMMON, or inst_mods a symlink
\* to the store's mods directory.  Both pass the check at the top of the
\* handler, which compares inst_mods with inst_mpmissions only.

\* the real directories d.iterdir() yields: the store's when d resolves there
RealChildren(d) ==
    IF Resolve(d) \in Roots THEN {s \in Dests : s[1] = Resolve(d) /\ store[s].exists} ELSE {}

ProjStep(st, mk, all, l) ==
    /\ store' = st
    /\ marker' = mk
    /\ inst_links' = {x \in all : x.dir \in InstDirs}
    /\ root_links' = {x \in all : x.dir \notin InstDirs}
    /\ lk' = l
    /\ UNCHANGED <<envvars, cache, keys, now, passvars, link_result, plan_out,
                   last_op, tool, lock, sdest, stmp, sync, tr, dsrc, dl, fn>>

\* if self.layout.inst_mods.resolve() == self.layout.inst_mpmissions.resolve(): raise
proj_begin ==
    /\ lk.at = "idle"
    /\ ~LayoutCollides
    /\ ProjStep(store, marker, inst_links \cup root_links, [lk EXCEPT !.at = "clear"])

\* if child.is_symlink() or child.is_file(): child.unlink(missing_ok=True)
proj_unlink_child ==
    /\ lk.at = "clear"
    /\ \E x \in inst_links : ProjStep(store, marker, (inst_links \ {x}) \cup root_links, lk)

\* elif child.is_dir(): shutil.rmtree(child)
proj_rmtree_child ==
    /\ lk.at = "clear"
    /\ \E d \in InstDirs : \E s \in RealChildren(d) :
          ProjStep([store EXCEPT ![s] = NoTree], [marker EXCEPT ![s] = NoMarker],
                   inst_links \cup root_links, lk)

proj_clear_done ==
    /\ lk.at = "clear"
    /\ inst_links = {}
    /\ \A d \in InstDirs : RealChildren(d) = {}
    /\ ProjStep(store, marker, root_links, [lk EXCEPT !.at = "ops", !.k = 1])

\* one _recreate_link call: what is at link_path is removed, the symlink is made
proj_recreate_link ==
    /\ lk.at = "ops"
    /\ lk.k <= Len(LinkOps(cfg))
    /\ ProjStep(store, marker, RecreateLink(inst_links \cup root_links, LinkOps(cfg)[lk.k]),
                [lk EXCEPT !.k = lk.k + 1])

\* log.info("Instance symlinks prepared")
proj_return ==
    /\ lk.at = "ops"
    /\ lk.k > Len(LinkOps(cfg))
    /\ ProjStep(store, marker, inst_links \cup root_links, [lk EXCEPT !.at = "done", !.runs = lk.runs + 1])

ProjInit ==
    \E c \in {CfgSingle, CfgMixed}, ds \in SUBSET {<<"mods", 1>>, <<"mods", 2>>, <<"maps", 2>>, <<"servermods", 2>>},
       il \in {{}, OldInstLinks}, ln \in {"inst_mods", "mods"} :
        /\ MainInitOn(World(c, FALSE, ln), StoreWith(ds), MarkersWith(ds),
                      {x \in il : ln = "inst_mods" \/ x.dir # "inst_mods"}, {})
        /\ tool = [p \in Procs |-> NoTool]
        /\ lock = 0
        /\ sdest = NoDir
        /\ stmp = NoDir
        /\ sync = [p \in Procs |-> NoSync]
        /\ lk = NoLk
        /\ tr = NoRun
        /\ dsrc = NoResolve
        /\ dl = NoDl
        /\ fn = NoFn

ProjNext ==
    \/ proj_begin
    \/ proj_unlink_child
    \/ proj_rmtree_child
    \/ proj_clear_done
    \/ proj_recreate_link
    \/ proj_return

ProjSpec == ProjInit /\ [][ProjNext]_vars

\* ============================================== api.py POST /missions/upload
\* fn holds the mpmissions folder (file name -> content, 0 when absent), the
\* missions index, the status of the last request and the disk before it.
MaxMissions == 2
MissionFiles == {"a.pbo", "b.pbo"}
MissionContents == {1, 2}
UploadConfigs == {"production", "missing"}

\* _compute_file_hash: the SHA256 of the content
FileHash(c) == <<"sha256", c>>

NoUpload ==
    [op |-> "upload", files |-> [n \in MissionFiles |-> 0], index |-> <<>>, status |-> 0,
     files0 |-> [n \in MissionFiles |-> 0], index0 |-> <<>>]

UploadStep(files, index, status) ==
    /\ fn' = [op |-> "upload", files |-> files, index |-> index, status |-> status,
              files0 |-> fn.files, index0 |-> fn.index]
    /\ UNCHANGED <<mainvars, tool, lock, sdest, stmp, sync, lk, tr, dsrc, dl>>

\* for mission in existing_missions: if mission.get("fileHash") == file_hash
Duplicate(index, h) == \E i \in DOMAIN index : index[i].fileHash = h

\* _upsert_mission: the entry is appended, never merged by name
upsert_mission(index, meta) == Append(index, meta)

\* upload_mission(file, configName)
upload_mission(filename, content, configName) ==
    /\ fn.op = "upload"
    /\ Len(fn.index) <= MaxMissions
    /\ IF filename = ""
       THEN UploadStep(fn.files, fn.index, 400)
       ELSE IF configName \notin {"production"}
       THEN UploadStep(fn.files, fn.index, 404)
       ELSE LET written == [fn.files EXCEPT ![filename] = content]
            IN IF Duplicate(fn.index, FileHash(content))
               THEN UploadStep([written EXCEPT ![filename] = 0], fn.index, 409)
               ELSE UploadStep(written,
                               upsert_mission(fn.index, [id |-> Len(fn.index) + 1, file |-> filename,
                                                         fileHash |-> FileHash(content)]),
                               200)

UploadInit ==
    /\ MainInit(World(CfgSingle, FALSE, "inst_mods"))
    /\ tool = [p \in Procs |-> NoTool] /\ lock = 0 /\ sdest = NoDir /\ stmp = NoDir
    /\ sync = [p \in Procs |-> NoSync]
    /\ lk = NoLk /\ tr = NoRun /\ dsrc = NoResolve /\ dl = NoDl
    /\ fn = NoUpload

UploadNext ==
    \E filename \in MissionFiles \cup {""}, content \in MissionContents, configName \in UploadConfigs :
        upload_mission(filename, content, configName)

UploadSpec == UploadInit /\ [][UploadNext]_vars

\* ============================================ SteamCMD._run and its readers
\* The child writes lines to two pipes; one _pump_bytes thread per pipe moves
\* them into the shared ring; the caller waits for the child, joins each
\* thread for at most a second and then reads the tail.
MaxPrinted == 2
ring_max == 50
Pipes == {"stdout", "stderr"}
PumpLines == {{}, {"RATE_LIMIT"}}

NoPump ==
    [op |-> "pump", at |-> "wait", rc |-> 0, printed |-> 0,
     pipe |-> [s \in Pipes |-> <<>>], buf |-> [s \in Pipes |-> <<>>],
     done |-> [s \in Pipes |-> FALSE], ring |-> <<>>, tail |-> <<>>, errors |-> <<>>]

PumpStep(f) ==
    /\ fn' = f
    /\ UNCHANGED <<mainvars, tool, lock, sdest, stmp, sync, lk, tr, dsrc, dl>>

\* the child writes a line, newline included, to one of its streams
tool_prints(s, l) ==
    /\ fn.op = "pump" /\ fn.at = "wait"
    /\ fn.printed < MaxPrinted
    /\ PumpStep([fn EXCEPT !.pipe[s] = Append(@, l), !.printed = @ + 1])

\* the child exits with rc, after a last line with or without its newline;
\* rc = proc.wait() returns
tool_exits(rc, s, last, nl) ==
    /\ fn.op = "pump" /\ fn.at = "wait"
    /\ last # <<>> => fn.printed < MaxPrinted
    /\ PumpStep([fn EXCEPT !.at = "join_stdout", !.rc = rc,
                           !.printed = @ + Len(last),
                           !.pipe[s] = IF nl THEN @ \o last ELSE @,
                           !.buf[s] = IF nl THEN <<>> ELSE last])

\* ring.append(line); if len(ring) > ring_max: del ring[: len(ring) - ring_max]
RingAppend(ring, line) == LastLines(Append(ring, line), ring_max)

\* _pump_bytes, one complete line read from the pipe
pump_bytes_line(s) ==
    /\ fn.op = "pump" /\ ~fn.done[s]
    /\ fn.pipe[s] # <<>>
    /\ PumpStep([fn EXCEPT !.ring = RingAppend(@, Head(fn.pipe[s])), !.pipe[s] = Tail(@)])

\* _pump_bytes, if not chunk: break; what is left in buf is not a line
pump_bytes_eof(s) ==
    /\ fn.op = "pump" /\ ~fn.done[s]
    /\ fn.at # "wait"
    /\ fn.pipe[s] = <<>>
    /\ PumpStep([fn EXCEPT !.done[s] = TRUE, !.buf[s] = <<>>])

AfterJoin(s) == IF s = "stdout" THEN "join_stderr" ELSE "classify"

\* t.join(timeout=1) returns because the thread has ended
join_ended(s) ==
    /\ fn.op = "pump" /\ fn.at = "join_" \o s
    /\ fn.done[s]
    /\ PumpStep([fn EXCEPT !.at = AfterJoin(s)])

\* t.join(timeout=1) returns because the second has passed
join_timeout(s) ==
    /\ fn.op = "pump" /\ fn.at = "join_" \o s
    /\ ~fn.done[s]
    /\ PumpStep([fn EXCEPT !.at = AfterJoin(s)])

\* if rc != 0: tail = tuple(ring[-10:]) and the tests on it
run_classifies ==
    /\ fn.op = "pump" /\ fn.at = "classify"
    /\ PumpStep([fn EXCEPT !.at = IF Classify(fn.rc, fn.ring) = <<>> THEN "returned" ELSE "raised",
                           !.tail = LastLines(fn.ring, tail_lines),
                           !.errors = Classify(fn.rc, fn.ring)])

PumpInit ==
    /\ MainInit(World(CfgSingle, FALSE, "inst_mods"))
    /\ tool = [p \in Procs |-> NoTool] /\ lock = 0 /\ sdest = NoDir /\ stmp = NoDir
    /\ sync = [p \in Procs |-> NoSync]
    /\ lk = NoLk /\ tr = NoRun /\ dsrc = NoResolve /\ dl = NoDl
    /\ fn = NoPump

PumpNext ==
    \/ \E s \in Pipes, l \in PumpLines : tool_prints(s, l)
    \/ \E rc \in {0, 1}, s \in Pipes, l \in PumpLines, nl \in BOOLEAN :
          \E last \in {<<>>, <<l>>} : tool_exits(rc, s, last, nl)
    \/ \E s \in Pipes : pump_bytes_line(s)
    \/ \E s \in Pipes : pump_bytes_eof(s)
    \/ \E s \in Pipes : join_ended(s)
    \/ \E s \in Pipes : join_timeout(s)
    \/ run_classifies

PumpSpec == PumpInit /\ [][PumpNext]_vars

\* ------------------------------------------------------------------ claims
PassDone == batch.status \in {"returned", "raised"}
FailedAt(p) == outcomes[p].how # "result"

\* C1: when a non-dry ensure_workshop has ended, every item of every category
\* has been attempted exactly once; the error is raised iff some required item
\* failed; its enumeration holds exactly the failed required items (category,
\* name, id, reason), each once and in order; and the required items that
\* succeeded are installed although the error is raised.
C1_BatchAggregation ==
    (PassDone /\ ~dry_run) =>
        LET F == {p \in 1..Len(Items) : FailedAt(p) /\ Items[p].item.required}
        IN /\ Len(outcomes) = Len(Items)
           /\ (batch.status = "raised") <=> (F # {})
           /\ \E f \in [1..Len(batch.msg) -> F] :
                /\ \A q \in F : \E i \in 1..Len(batch.msg) : f[i] = q
                /\ \A i, j \in 1..Len(batch.msg) : i < j => f[i] < f[j]
                /\ \A i \in 1..Len(batch.msg) :
                      batch.msg[i] = [kind |-> Items[f[i]].kind,
                                      name |-> ItemName(Items[f[i]].item),
                                      wid |-> Items[f[i]].item.id,
                                      reason |-> outcomes[f[i]].reason]
           /\ batch.status = "raised" =>
                \A p \in 1..Len(Items) :
                    (~FailedAt(p) /\ Items[p].item.required) =>
                        LET d == DestOf(Items[p].kind, Items[p].item.id)
                        IN store[d].exists /\ marker[d].state = "ok"

\* three required items, the first and the third fail, the second is installed
C1_Witness ==
    /\ PassDone /\ ~dry_run /\ cfg = CfgRequired
    /\ Len(outcomes) = 3
    /\ outcomes[1].how = "raised" /\ outcomes[2].how = "result" /\ outcomes[3].how = "raised"
    /\ Len(results) = 1 /\ results[1].changed
    /\ batch.status = "raised" /\ Len(batch.msg) = 2

\* C2: an optional item that failed (exception from the tool, or None after
\* NOT_FOUND / ACCESS_DENIED / a missing cache directory) is in no failure
\* list and in no result list, the pass goes on with the next item, and the
\* batch raises only if a required item failed.
C2_OptionalFailureIsolated ==
    \A p \in 1..Len(outcomes) :
        (~Items[p].item.required /\ FailedAt(p)) =>
            /\ \A i \in 1..Len(failures) :
                  ~(failures[i].kind = Items[p].kind /\ failures[i].wid = Items[p].item.id)
            /\ \A i \in 1..Len(batch.msg) :
                  ~(batch.msg[i].kind = Items[p].kind /\ batch.msg[i].wid = Items[p].item.id)
            /\ \A i \in 1..Len(results) :
                  ~(results[i].kind = Items[p].kind /\ results[i].id = Items[p].item.id)
            /\ (p = Len(outcomes) /\ p < Len(Items)) => (pos = p + 1 /\ pc # "idle" /\ pc # "link")
            /\ PassDone => Len(outcomes) = Len(Items)
            /\ batch.status = "raised" =>
                  \E q \in 1..Len(outcomes) : Items[q].item.required /\ FailedAt(q)

\* the optional item failed with FAILED, the required item after it was installed
C2_Witness ==
    /\ PassDone /\ cfg = CfgMixed /\ ~skip_install /\ ~dry_run
    /\ Len(outcomes) = 2
    /\ outcomes[1].how = "raised" /\ outcomes[1].last_kind = "FAILED"
    /\ outcomes[2].how = "result"
    /\ batch.status = "returned"
    /\ Len(results) = 1 /\ results[1].changed

\* C3: when the oracle returns None for an installed item, the evaluation says
\* not up-to-date whatever the marker holds, and the pass goes on to download.
C3_UnknownRemoteIsStale ==
    [][(pc = "evaluated" /\ ev.queried /\ ev.ans = 0) => (~ev.up /\ pc' = "download")]_vars

\* the marker was written this very second, the tree is valid, the oracle is silent
C3_Witness ==
    /\ pc = "evaluated" /\ ev.queried /\ ev.ans = 0
    /\ VerifyModMinimum(store[CurDest])
    /\ marker[CurDest].state = "ok"
    /\ marker[CurDest].synced_at = now
    /\ marker[CurDest].timestamp >= remote[CurId]

\* the check of an installed item whose marker's timestamp equals the value
\* the oracle returns for it
FreshCheck ==
    /\ pc = "item" /\ pc' = "evaluated"
    /\ store[CurDest].exists
    /\ marker[CurDest].state = "ok"
    /\ marker[CurDest].timestamp = remote[CurId]
    /\ ev'.ans = remote[CurId]

C5_PlanIsPure ==
    [][last_op' = "plan" => fs' = fs]_vars

\* plan() has run on a store that holds an installed item and its keys
C5_Witness ==
    /\ last_op = "plan"
    /\ plan_out.actions # <<>>
    /\ \E d \in Dests : store[d].exists /\ marker[d].state = "ok"
    /\ keys # {}

\* C6: the evaluation answers up-to-date exactly if the install directory
\* exists, the marker exists, the oracle returned a timestamp, the tree passes
\* the minimal-content check and the marker's timestamp is readable and at
\* least the oracle's.
C6_UpToDateIff ==
    pc = "evaluated" =>
        (ev.up <=> /\ store[CurDest].exists
                   /\ marker[CurDest].state # "absent"
                   /\ ev.ans # 0
                   /\ VerifyModMinimum(store[CurDest])
                   /\ marker[CurDest].state = "ok"
                   /\ marker[CurDest].timestamp >= ev.ans)

\* up-to-date with a marker newer than the remote timestamp
C6_Witness ==
    /\ pc = "evaluated" /\ ev.up
    /\ marker[CurDest].timestamp > ev.ans

\* C7: one call of the tool client starts the tool at most 8 times; a run that
\* succeeds ends the call; a run that ends as NOT_FOUND, ACCESS_DENIED or
\* FAILED raises at once; a run that ends as RATE_LIMIT is followed by another
\* run unless it was the 8th, which raises RATE_LIMIT.
C7_BackoffLoop ==
    [][pc = "download" =>
          /\ call.attempt < 8
          /\ call'.kind = "OK" => (pc' = "call_end" /\ call'.status = "returned")
          /\ call'.kind \in {"NOT_FOUND", "ACCESS_DENIED", "FAILED"} =>
                (pc' = "call_end" /\ call'.status = "raised")
          /\ call'.kind = "RATE_LIMIT" =>
                IF call.attempt + 1 = 8
                THEN pc' = "call_end" /\ call'.status = "raised"
                ELSE pc' = "download" /\ call'.status = "running" /\ call'.attempt = call.attempt + 1
          /\ call.attempt > 0 => call.kind = "RATE_LIMIT"]_vars

\* the call has raised RATE_LIMIT
C7_Witness ==
    pc = "call_end" /\ call.status = "raised" /\ call.kind = "RATE_LIMIT"

\* C8 as stated: a call that raised RATE_LIMIT or TIMEOUT before the last
\* outer attempt is followed by another outer attempt.
C8_TransientRetried ==
    [][(/\ pc = "call_end" /\ call.status = "raised"
        /\ call.kind \in {"RATE_LIMIT", "TIMEOUT"}
        /\ attempt < outer_max_attempts)
       => (pc' = "download" /\ attempt' = attempt + 1)]_vars

\* C9 as stated: after an install of item X the keys with prefix X in the
\* keys directory are exactly the keys of the tree just installed.
C9_KeysRotated ==
    [][(pc = "post_download" /\ cache[CurId].exists /\ pc' = "item") =>
          {f \in keys' : f.prefix = CurId} = {KeyEntry(CurId, k) : k \in store'[CurDest].keys}]_vars

\* C10: if <instance>/mods and <instance>/mpmissions resolve to the same
\* path, link_instance_content raises and nothing on disk has changed.
C10_CollisionRaisesFirst ==
    [][(pc = "link" /\ Resolve("inst_mods") = Resolve("inst_mpmissions")) =>
          (link_result' = "raised" /\ fs' = fs)]_vars

\* the link step has raised in a non-dry pass over a store that holds an item
C10_Witness ==
    /\ link_result = "raised" /\ ~dry_run
    /\ \E d \in Dests : store[d].exists

\* C11 as stated: a child of the tool is alive only while its invocation
\* holds the advisory lock, so no two children are alive at the same time.
C11_OneChildAtATime ==
    /\ \A p \in Procs : Alive(tool[p].child) => lock = p
    /\ ~(Alive(tool[1].child) /\ Alive(tool[2].child))

\* C17 as stated: no invocation stays blocked on a live child beyond the
\* bound of one attempt.
C17_WaitBounded ==
    \A p \in Procs : ~tool[p].overdue

\* a run of _sync_from_cache is between its first and its last filesystem step
InSwap(p) == sync[p].at \in {"rm_tmp", "copy_mkdir", "copy", "rm_dest", "rename"}

\* C12 as stated: the swaps of two concurrent runs on one item's directory do
\* not interleave, and once both runs have ended the directory is a complete
\* copy of the cache.
C12_SwapsSerialized ==
    /\ ~(InSwap(1) /\ InSwap(2))
    /\ (\A p \in Procs : sync[p].at \in {"done", "raised"}) => sdest = Complete(NewVersion)

\* C13 as stated: while one run synchronises, and after it has died at any
\* step, dest is absent, the complete previous version or the complete new one.
C13_DestNeverPartial ==
    sync[2].at = "idle" => sdest \in {NoDir, Complete(OldVersion), Complete(NewVersion)}

\* C14: a link_instance_content run that completes, after any number of runs
\* over the same configuration and store that were killed part-way, leaves
\* exactly the links one uninterrupted run leaves; and a further complete run
\* changes nothing.
C14_LinkIdempotent ==
    lk.at = "done" =>
        /\ [inst |-> inst_links, root |-> root_links] = LinkedState(lk.il0, lk.rl0, cfg)
        /\ LinkedState(inst_links, root_links, cfg) = [inst |-> inst_links, root |-> root_links]

\* two runs have completed after an interrupted one, over leftovers of an
\* earlier configuration, and links were made
C14_Witness ==
    /\ lk.at = "done"
    /\ lk.crashed
    /\ lk.runs = MaxRuns
    /\ lk.il0 # {}
    /\ lk.rl0 # {}
    /\ inst_links # {}

\* C18: a run that exits non-zero raises exactly one error, NOT_FOUND if the
\* not-found pattern matches the last lines, else ACCESS_DENIED if the access
\* pattern does, else RATE_LIMIT if the rate-limit pattern does, else FAILED;
\* a run that exits with 0 raises nothing whatever the lines hold.
C18_ErrorKind ==
    tr.at \in {"returned", "raised"} =>
        LET tail == LastLines(tr.ring, tail_lines)
            hit(p) == \E i \in DOMAIN tail : p \in tail[i]
        IN /\ tr.rc = 0 => tr.at = "returned" /\ tr.errors = <<>>
           /\ tr.rc # 0 =>
                /\ tr.at = "raised"
                /\ Len(tr.errors) = 1
                /\ hit("NOT_FOUND") => tr.errors[1].kind = "NOT_FOUND"
                /\ ~hit("NOT_FOUND") /\ hit("ACCESS_DENIED") => tr.errors[1].kind = "ACCESS_DENIED"
                /\ ~hit("NOT_FOUND") /\ ~hit("ACCESS_DENIED") /\ hit("RATE_LIMIT")
                       => tr.errors[1].kind = "RATE_LIMIT"
                /\ ~hit("NOT_FOUND") /\ ~hit("ACCESS_DENIED") /\ ~hit("RATE_LIMIT")
                       => tr.errors[1].kind = "FAILED"

\* a failed run whose last lines match the rate-limit and the not-found
\* pattern, with an access-denied line further back than the last ten
C18_Witness ==
    /\ tr.at = "raised"
    /\ Len(tr.ring) > tail_lines
    /\ "ACCESS_DENIED" \in tr.ring[1]
    /\ \E i \in DOMAIN tr.ring : i > Len(tr.ring) - tail_lines /\ "RATE_LIMIT" \in tr.ring[i]
    /\ \E i \in DOMAIN tr.ring : i > Len(tr.ring) - tail_lines /\ "NOT_FOUND" \in tr.ring[i]
    /\ tr.errors[1].kind = "NOT_FOUND"

\* C19: the link source of a DLC is the install directory if it holds addons/;
\* else the child named after the mount name if that holds addons/; else the
\* only child directory that holds addons/; else, of several such children,
\* the one whose name is smallest, whatever the enumeration order, with one
\* warning; else the install directory, with a warning.  A choice is always
\* made.
C19_LinkSource ==
    dsrc.at = "returned" =>
        LET t == dsrc.target
            kids == {t.listing[i] : i \in DOMAIN t.listing}
            qual == {c.name : c \in {k \in kids : k.dir /\ k.addons}}
            least == CHOOSE n \in qual : \A o \in qual : o = n \/ NameLess(n, o)
        IN IF t.addons THEN dsrc.out = Chosen(<<>>, 0)
           ELSE IF dsrc.mount \in qual THEN dsrc.out = Chosen(<<dsrc.mount>>, 0)
           ELSE IF Cardinality(qual) = 1 THEN dsrc.out.path = <<CHOOSE n \in qual : TRUE>>
           ELSE IF Cardinality(qual) > 1 THEN dsrc.out = Chosen(<<least>>, 1)
           ELSE dsrc.out.path = <<>> /\ dsrc.out.warnings >= 1

\* two children qualify, enumerated with the larger name first, none of them
\* named after the mount name, and the smaller one was chosen
C19_Witness ==
    /\ dsrc.at = "returned"
    /\ ~dsrc.target.addons
    /\ Len(dsrc.target.listing) >= 2
    /\ dsrc.target.listing[1] = Child("b", TRUE, TRUE)
    /\ dsrc.target.listing[2] = Child("a", TRUE, TRUE)
    /\ dsrc.mount = "contact"
    /\ dsrc.out = Chosen(<<"a">>, 1)

\* C15: in sync_content a DLC whose installation fails does not keep the
\* remaining DLCs and the workshop items from being processed: an error of a
\* DLC leaves sync_content only when every DLC has been visited and
\* ensure_workshop has ended.
C15_DlcFailureDeferred ==
    dl.at = "raised" => dl.pos > Len(cfg.dlcs) /\ PassDone

\* C16: every step of a dry run of ensure_dlcs, ensure_workshop and
\* link_instance_content starts no tool run, puts no question to the remote
\* side and leaves the store, the markers, the cache, the keys and every link
\* as they were; each InstallResult returned so far has changed equal to
\* "the marker of its item is absent".
C16_DryRunIsInert ==
    [][dry_run' =>
          /\ fs' = fs
          /\ dl'.marker = dl.marker /\ dl'.tree = dl.tree /\ dl'.links = dl.links
          /\ call' = NoCall /\ attempt' = 0
          /\ ~ev'.queried
          /\ \A i \in DOMAIN dl'.results :
                dl'.results[i].changed = (dl'.marker[cfg.dlcs[i].mount_name].state = "absent")
          /\ \A i \in DOMAIN results' :
                results'[i].changed = (marker'[DestOf(results'[i].kind, results'[i].id)].state = "absent")
      ]_vars

\* a dry run has gone through all three calls over a store in which both DLCs
\* are installed and the workshop item is not
C16_Witness ==
    /\ dry_run
    /\ link_result = "returned"
    /\ Len(dl.results) = 2
    /\ ~dl.results[1].changed
    /\ ~dl.results[2].changed
    /\ Len(results) = 1
    /\ results[1].changed

\* the workshop_download call has returned and the item's cache directory is missing
NoCacheCase == pc = "post_download" /\ ~cache[CurId].exists
\* the call ends with an exception for a required item, with None for an optional one
NoCacheOutcome ==
    /\ results' = results
    /\ outcomes'[Len(outcomes')].how = IF Cur.item.required THEN "raised" ELSE "none"

InstallCase == pc = "post_download" /\ cache[CurId].exists

\* C21: when the tree just installed from the cache fails the minimal-content
\* validation, the marker is not refreshed and the item ends as a failure:
\* raised for a required item, skipped for an optional one.
C21_InvalidInstallFails ==
    [][InstallCase /\ ~VerifyModMinimum(NormalizeModCase(cache[CurId])) =>
          /\ marker'[CurDest] = marker[CurDest]
          /\ results' = results
          /\ outcomes'[Len(outcomes')].how = IF Cur.item.required THEN "raised" ELSE "none"
      ]_vars

\* C22: after an install the marker's timestamp is the remote timestamp the
\* oracle supplied during the call, at the staleness check or at the re-query,
\* and the current time only if it supplied none; the result has changed set.
C22_EpochFromOracle ==
    [][InstallCase =>
          /\ ev.ans # 0 => marker'[CurDest].timestamp = ev.ans
          /\ ev.ans = 0 => marker'[CurDest].timestamp \in {remote[CurId], now}
          /\ results' = Append(results, InstallResult(Cur.kind, CurId, TRUE))
      ]_vars

\* the instance folder of a category: maps and client mods are mods to the game
CategoryFolder(kind) == IF kind = "servermods" THEN "inst_servermods" ELSE "inst_mods"

\* C23: when a non-dry link_instance_content has completed, every installed
\* workshop item of the configuration has a link named by its id in the
\* instance folder of its category and a link named "@<id>" in the game root,
\* both pointing to the item's directory in the store.
C23_InstalledItemsLinked ==
    lk.at = "done" =>
        \A p \in DOMAIN WorkItems(cfg) :
            LET it == WorkItems(cfg)[p]
                d == DestOf(it.kind, it.item.id)
            IN store[d].exists =>
                 /\ Link(CategoryFolder(it.kind), ToString(it.item.id), d) \in inst_links
                 /\ Link("arma_root", "@" \o ToString(it.item.id), d) \in root_links

\* the add-on is enabled with a link target that names no instance folder
BadOcapTarget == cfg.ocap.enabled /\ cfg.ocap.link_to \notin {"mods", "servermods"}

\* C24: with the add-on enabled and a link target that is neither "mods" nor
\* "servermods", link_instance_content does not complete and no link to the
\* add-on is made.
C24_BadOcapTargetFails ==
    BadOcapTarget =>
        /\ lk.at # "done"
        /\ \A l \in inst_links \cup root_links : l.target # <<"ocap", 0>>

\* the download_workshop actions of the plan for one item of one category
DownloadActions(kind, wid) ==
    {i \in DOMAIN plan_out.actions :
        /\ plan_out.actions[i].action = "download_workshop"
        /\ plan_out.actions[i].kind = kind
        /\ plan_out.actions[i].wid = wid}

\* C25: the plan holds exactly one download_workshop action for every workshop
\* item of every category, clientmods included, with severity "warn" exactly
\* when the item is required and its cache directory is absent.
C25_OneDownloadPerItem ==
    last_op = "plan" =>
        \A p \in DOMAIN WorkItems(cfg) :
            LET it == WorkItems(cfg)[p]
                acts == DownloadActions(it.kind, it.item.id)
            IN /\ Cardinality(acts) = 1
               /\ \A i \in acts :
                    plan_out.actions[i].severity =
                        IF it.item.required /\ ~cache[it.item.id].exists THEN "warn" ELSE "info"

\* C26: in a sync of an instance whose mods folder and mpmissions folder
\* resolve to the same path, no step of the run starts the tool or changes a
\* store directory, a marker, the cache, a key or a link.
C26_CollisionBeforeMutation ==
    [][LayoutCollides /\ last_op' \in {"ensure_dlcs", "ensure_workshop", "link"} =>
          /\ fs' = fs
          /\ pc' # "download"
      ]_vars

\* C27: no logged command line of a tool client shows the login name or the
\* password: the two tokens after every '+login' are masks.
Masks == {"***pw***", "**user**", "<REDACTED_USER>", "<REDACTED_PW>"}

C27_CredentialsMasked ==
    fn.op \in {"_mask_steamcmd", "_mask_cmd"} =>
        /\ \A k \in DOMAIN fn.logged : fn.logged[k].text \notin {fn.user, fn.pw}
        /\ \A i \in DOMAIN fn.cmd :
              fn.cmd[i] = "+login" =>
                 fn.logged[i + 1].text \in Masks /\ fn.logged[i + 2].text \in Masks

\* the items ended so far that returned a result, in the order they ended
RECURSIVE Reported(_)
Reported(n) ==
    IF n = 0 THEN <<>>
    ELSE IF outcomes[n].how = "result" THEN Append(Reported(n - 1), Items[n])
         ELSE Reported(n - 1)

RECURSIVE IsSubseq(_, _)
IsSubseq(a, b) ==
    IF a = <<>> THEN TRUE
    ELSE IF b = <<>> THEN FALSE
    ELSE IF Head(a) = Head(b) THEN IsSubseq(Tail(a), Tail(b))
    ELSE IsSubseq(a, Tail(b))

WorkshopStages == {"item", "evaluated", "download", "call_end", "post_download"}
KindsInOrder == <<"mods", "clientmods", "maps", "servermods">>
IdsOf(s) == [i \in DOMAIN s |-> s[i].id]
OfKind(rs, k) == SelectSeq(rs, LAMBDA r : r.kind = k)

\* C28: a pass is sequential: the DLCs come first and in configuration
\* order, then the workshop items one at a time, every earlier item ended
\* before the next starts, then the links; the result list keeps the order in
\* which the items were processed, which inside a category is the order of the
\* configuration.
C28_SequentialInOrder ==
    /\ pc = "dlc" => pos = 0 /\ outcomes = <<>> /\ results = <<>>
    /\ pc \in WorkshopStages \cup {"link"} => dl.pos = Len(cfg.dlcs) + 1
    /\ \A k \in DOMAIN dl.results : dl.results[k].id = cfg.dlcs[k].app_id
    /\ pc \in WorkshopStages => Len(outcomes) = pos - 1
    /\ last_op = "link" => Len(outcomes) = Len(Items)
    /\ LET rep == Reported(Len(outcomes))
       IN  /\ Len(results) = Len(rep)
           /\ \A k \in DOMAIN results :
                 results[k].kind = rep[k].kind /\ results[k].id = rep[k].item.id
    /\ \A k \in DOMAIN KindsInOrder :
          IsSubseq(IdsOf(OfKind(results, KindsInOrder[k])), IdsOf(cfg[KindsInOrder[k]]))

C28_Witness ==
    /\ last_op = "link"
    /\ ~dry_run /\ ~skip_install
    /\ results[1].changed
    /\ link_result = "returned"
    /\ Len(dl.results) = 2
    /\ Len(results) = 3
    /\ results[1].id = 2 /\ results[2].id = 1 /\ results[3].kind = "maps"

\* C30: merge_mods decides per category: an override of None keeps the
\* default list, an override that is an empty list gives the empty list, a
\* non-empty override list replaces the default list.
C30_PerCategory ==
    fn.op = "merge_mods" =>
        \A cat \in categories :
            LET d == fn.default_mods[cat]  o == fn.override_mods[cat]  r == fn.result[cat]
            IN  /\ o.none => r.list = d.list
                /\ ~o.none /\ o.list = <<>> => r.list = <<>>
                /\ ~o.none /\ o.list # <<>> => r.list = o.list

\* C29: 'run --dry-run' starts no SteamCMD process and changes nothing on the
\* filesystem, from its start to its exit.
C29_DryRunCommandInert ==
    fn.op = "cli" =>
        /\ fn.spawned = 0
        /\ ~fn.arma_updated
        /\ fn.dirs = fn.dirs0
        /\ fn.files = {}

\* the entries of list s at the positions whose id is not in ids, in order
RECURSIVE Without(_, _)
Without(s, ids) ==
    IF s = <<>> THEN <<>>
    ELSE IF Head(s).id \in ids THEN Without(Tail(s), ids)
    ELSE <<Head(s)>> \o Without(Tail(s), ids)

IdsIn(o) == {o.list[k] : k \in DOMAIN o.list}

\* C31: merge_mods_list returns base for no override, the replace list when
\* one is set, and else the base entries whose id is not removed, in their
\* order, followed by all added entries in theirs.
C31_MergeModsList ==
    fn.op = "merge_mods_list" =>
        LET o == fn.override IN
        /\ o.none => fn.merged = fn.base
        /\ ~o.none /\ ~o.replace.none => fn.merged = o.replace.list
        /\ ~o.none /\ o.replace.none =>
              fn.merged = Without(fn.base, IdsIn(o.removed)) \o o.added.list

C31_Witness ==
    /\ fn.op = "merge_mods_list"
    /\ ~fn.override.none /\ fn.override.replace.none
    /\ Len(fn.base) = 2
    /\ fn.base[1].id \in IdsIn(fn.override.removed)
    /\ fn.base[2].id \notin IdsIn(fn.override.removed)
    /\ Len(fn.override.added.list) = 2
    /\ fn.override.added.list[1].id \in IdsIn(fn.override.removed)
    /\ Len(fn.merged) = 3

\* C32: once set_active_config has succeeded, the active configuration stays
\* listed whatever create_config, set_active_config and delete_config calls
\* follow.
C32_ActiveStaysListed ==
    fn.op = "store" /\ fn.was_set => get_active_config(fn) \in list_configs(fn)

\* C33: a staleness check that finds a readable marker rewrites it with
\* last_checked set to the time of the check and timestamp and synced_at as
\* they were; timestamp and synced_at of a marker change only in the install
\* that follows a download.
C33_CheckKeepsEpoch ==
    [][\A d \in Dests :
          /\ (pc = "item" /\ pc' = "evaluated" /\ d = CurDest
                /\ store[d].exists /\ marker[d].state = "ok")
                => marker'[d] = [marker[d] EXCEPT !.last_checked = now]
          /\ (marker'[d].state = "ok"
                /\ (marker'[d].timestamp # marker[d].timestamp
                      \/ marker'[d].synced_at # marker[d].synced_at))
                => pc = "post_download"
      ]_vars

\* C34: an invocation of _steamcmd_run that cannot take the lock within the
\* timeout ends with False and has started no child; a child of this client
\* only lives while its invocation holds the lock.
C34_LockTimeoutIsFailure ==
    \A p \in Procs :
        tool[p].client = "steam" =>
            /\ (tool[p].at = "done" /\ tool[p].attempt = 0)
                  => tool[p].result = "false" /\ tool[p].child = "none"
            /\ tool[p].at = "locking" => tool[p].child = "none"
            /\ Alive(tool[p].child) => lock = p

C34_Witness ==
    \E p, q \in Procs :
        /\ p # q
        /\ tool[p].client = "steam" /\ tool[p].at = "done" /\ tool[p].attempt = 0
        /\ tool[p].result = "false"
        /\ tool[q].client = "steam" /\ lock = q /\ Alive(tool[q].child)

\* C35: when no install is running, a canonical directory that holds the
\* marker holds a complete tree of one version: an install that crashed left
\* no marker or a complete tree.
C35_MarkerMeansComplete ==
    (sync[1].at \in {"idle", "crashed", "marked"}
        /\ \E f \in sdest.files : f[1] = MarkerFile)
    => \E v \in {OldVersion, NewVersion} : FileNames \X {v} \subseteq sdest.files

\* the (source, destination) pairs of the plan's link actions for workshop items
PlanLinkPairs(c) ==
    {<<PlanActions(c)[i].src, PlanActions(c)[i].dst[1], ToString(PlanActions(c)[i].dst[2])>> :
        i \in {j \in DOMAIN PlanActions(c) : PlanActions(c)[j].action = "link"}}

\* the (target, link path) pairs of the workshop links in the instance folders
MadeLinkPairs == {<<l.target, l.dir, l.name>> : l \in {x \in inst_links : x.target[1] \in Roots}}

\* every directory a link action or a link of the configuration starts from exists
AllSourcesExist(c) ==
    /\ \A p \in DOMAIN WorkItems(c) : store[DestOf(WorkItems(c)[p].kind, WorkItems(c)[p].item.id)].exists
    /\ \A i \in DOMAIN PlanActions(c) :
          PlanActions(c)[i].action = "link" => store[PlanActions(c)[i].src].exists

\* C36: after a non-dry link_instance_content with every source present, the
\* workshop links in the instance folders are exactly the (source,
\* destination) pairs of the plan's link actions.
C36_PlanPreviewsLinks ==
    (last_op = "link" /\ link_result = "returned" /\ ~dry_run /\ AllSourcesExist(cfg))
        => PlanLinkPairs(cfg) = MadeLinkPairs

\* C37: no step of link_instance_content removes or changes a directory of
\* the store, on any layout that passes the check at its top.
C37_StoreUntouched == [][lk.at # "idle" => store' = store /\ marker' = marker]_vars

\* C38: when a non-dry link_instance_content has completed, every link to a
\* store directory in the instance folders and in the game root belongs to an
\* item of the current configuration.
C38_NoStaleProjection ==
    lk.at = "done" =>
        \A l \in inst_links \cup root_links : l.target[1] \in Roots => l.target \in ItemDests(cfg)

\* C39: an upload rejected with 409 leaves the missions index and the file
\* of every mission of the index as they were before the request.
C39_RejectedUploadInert ==
    (fn.op = "upload" /\ fn.status = 409) =>
        /\ fn.index = fn.index0
        /\ \A i \in DOMAIN fn.index0 : fn.files[fn.index0[i].file] = fn.files0[fn.index0[i].file]

\* C40: when a failed run is classified, the tail that was read holds every
\* line the tool printed.
C40_TailComplete ==
    (fn.op = "pump" /\ fn.at = "raised") => Len(fn.tail) = fn.printed

====
